---- MODULE Spec2Model ----
(***************************************************************************)
(* Cross-table person search of the Dash text-to-SQL agent.                *)
(*                                                                         *)
(* The model follows search_all_tables and combine_results of              *)
(* dash_multitable.py statement by statement.  The relational store        *)
(* (catalog, rows, LIKE evaluation, faults of the catalog and of queries)  *)
(* is the environment.  Text is a sequence of one-character strings, so    *)
(* that splitting, upper-casing, substring tests and LIKE patterns are     *)
(* computed and not assumed.                                               *)
(***************************************************************************)
EXTENDS Integers, Sequences, FiniteSets, TLC

(***************************************************************************)
(* Bounds of the explored inputs.                                          *)
(***************************************************************************)
\* tables of a multi-table store
NumTables == 2
\* largest table budget (max_tables) tried on a multi-table store
MaxBudget == 2
\* longest search phrase, in characters, tried on a one-table store
MaxPhraseLen == 3
\* most rows of the table of a one-table store
MaxRows == 1
\* calls of search_all_tables made one after the other by the caller
MaxCalls == 2

\* rows a table holds at most while another client writes to it
MaxStoreRows == 2

\* characters of a question put to query_and_introduce
MaxQuestionLen == 3

\* models the Ollama server lists at most
MaxModels == 2

\* requests made to /health at most
MaxChecks == 2

(***************************************************************************)
(* Program constants.                                                      *)
(***************************************************************************)
\* def search_all_tables(search_term, max_tables: int = 10)
DefaultMaxTables == 10
\* SELECT TOP 10 *
SampleLimit == 10

(***************************************************************************)
(* Text.                                                                   *)
(***************************************************************************)
LowerLetters == <<"a","b","c","d","e","f","g","h","i","j","k","l","m",
                  "n","o","p","q","r","s","t","u","v","w","x","y","z">>
UpperLetters == <<"A","B","C","D","E","F","G","H","I","J","K","L","M",
                  "N","O","P","Q","R","S","T","U","V","W","X","Y","Z">>

\* str.upper() on one character
UpperChar(c) ==
    IF \E i \in 1..Len(LowerLetters) : LowerLetters[i] = c
    THEN UpperLetters[CHOOSE i \in 1..Len(LowerLetters) : LowerLetters[i] = c]
    ELSE c

\* str.upper()
Upper(s) == [i \in 1..Len(s) |-> UpperChar(s[i])]

\* Python's `t in s` on strings
IsSubstring(t, s) ==
    \E i \in 0..(Len(s) - Len(t)) : SubSeq(s, i + 1, i + Len(t)) = t

\* the characters str.split() treats as separators (of the alphabet used here)
IsSpace(c) == c \in {" ", "\t"}

RECURSIVE SplitRec(_, _, _)
SplitRec(s, cur, acc) ==
    IF s = <<>>
    THEN IF cur = <<>> THEN acc ELSE Append(acc, cur)
    ELSE IF IsSpace(Head(s))
         THEN SplitRec(Tail(s), <<>>, IF cur = <<>> THEN acc ELSE Append(acc, cur))
         ELSE SplitRec(Tail(s), Append(cur, Head(s)), acc)

SplitMut(s) ==
    LET terms == SplitRec(s, <<>>, <<>>)
    IN  [i \in 1..Len(terms) |-> Upper(terms[i])]

\* search_term.split(): the maximal runs of non-space characters, in order
Split(s) == SplitRec(s, <<>>, <<>>)

Min(a, b) == IF a <= b THEN a ELSE b

(***************************************************************************)
(* Values, columns, rows, tables of the store.                             *)
(***************************************************************************)
NullValue == [kind |-> "null", text |-> <<>>]
TextValue(s) == [kind |-> "text", text |-> s]
IntValue(digits) == [kind |-> "int", text |-> digits]

T_VARCHAR == <<"V","A","R","C","H","A","R">>
T_NCHAR   == <<"n","c","h","a","r">>
T_INTEGER == <<"I","N","T","E","G","E","R">>
T_XML     == <<"X","M","L">>

\* the markers of a string column
TypeMarkers == { <<"V","A","R","C","H","A","R">>,
                 <<"N","V","A","R","C","H","A","R">>,
                 <<"T","E","X","T">>,
                 <<"C","H","A","R">> }

IsStringTypeMut(type) == \E m \in TypeMarkers : IsSubstring(m, type)

\* any(t in col_type_str for t in [...]) with col_type_str = str(col['type']).upper()
IsStringType(type) ==
    LET col_type_str == Upper(type)
    IN  \E m \in TypeMarkers : IsSubstring(m, col_type_str)

StringColsMut(columns) == [j \in 1..Len(columns) |-> columns[j].name]

\* the names of the string columns, in catalog order
StringCols(columns) ==
    LET keep == SelectSeq(columns, LAMBDA c : IsStringType(c.type))
    IN  [j \in 1..Len(keep) |-> keep[j].name]

\* the tables named in the agent's instructions
TableNames == <<"J_CustomerContact", "CustomerInquiryMaster", "J_Job", "J_Customer">>

ContactColumns == << [name |-> "FirstName",      type |-> T_VARCHAR],
                     [name |-> "LastName",       type |-> T_NCHAR],
                     [name |-> "CustomerNumber", type |-> T_INTEGER] >>

\* a table without any string column; its Comment holds text all the same
NoStringColumns == << [name |-> "CustomerNumber", type |-> T_INTEGER],
                      [name |-> "Comment",        type |-> T_XML] >>

Forty == IntValue(<<"4","0">>)

\* rows of a ContactColumns table
RowBoth  == << TextValue(<<"A">>),     TextValue(<<"b">>), Forty >>
RowOne   == << TextValue(<<"A","b">>), NullValue,          Forty >>
RowFirst == << TextValue(<<"A">>),     NullValue,          Forty >>
RowNull  == << NullValue,              NullValue,          Forty >>
RowPool  == { RowBoth, RowOne, RowFirst, RowNull }

\* the row of a NoStringColumns table
RowComment == << Forty, TextValue(<<"A","b">>) >>

\* what the store does on an access to a table: "none" (succeeds), or a fault of
\* the column lookup, of the sample query or of the count query
Faults == {"none", "columns", "sample", "count"}

Table(columns, rows, fault) == [columns |-> columns, rows |-> rows, fault |-> fault]

\* the table contents of a multi-table store
TableKinds ==
    { Table(ContactColumns, <<RowBoth>>, "none"),
      Table(ContactColumns, <<RowFirst, RowOne, RowBoth>>, "none"),
      Table(ContactColumns, <<RowNull>>, "none"),
      Table(NoStringColumns, <<RowComment>>, "none"),
      Table(ContactColumns, <<RowBoth>>, "columns"),
      Table(ContactColumns, <<RowBoth>>, "sample"),
      Table(ContactColumns, <<RowOne, RowBoth>>, "count") }

SeqsUpTo(S, n) == UNION { [1..k -> S] : k \in 0..n }

\* the table contents of a one-table store
SingleTables == { Table(ContactColumns, rows, "none") : rows \in SeqsUpTo(RowPool, MaxRows) }

T_NVARCHAR == <<"N","V","A","R","C","H","A","R">>
T_LONGTEXT == <<"L","O","N","G","T","E","X","T">>
T_TEXT     == <<"t","e","x","t">>
T_CHAR     == <<"C","H","A","R","(","8",")">>
T_DATE     == <<"D","A","T","E">>

\* tables holding the fields the introduction is extracted from
NameColumns == << [name |-> "FirstName", type |-> T_VARCHAR],
                  [name |-> "LastName",  type |-> T_NVARCHAR],
                  [name |-> "Name",      type |-> T_LONGTEXT] >>

InquiryColumns == << [name |-> "Contact",   type |-> T_CHAR],
                     [name |-> "Attention", type |-> T_TEXT],
                     [name |-> "Name",      type |-> T_VARCHAR] >>

RoleColumns == << [name |-> "Position",       type |-> T_NCHAR],
                  [name |-> "Title",          type |-> T_LONGTEXT],
                  [name |-> "Name",           type |-> T_VARCHAR],
                  [name |-> "Born",           type |-> T_DATE],
                  [name |-> "CustomerNumber", type |-> T_INTEGER] >>

MailColumns == << [name |-> "EmailAddress", type |-> T_VARCHAR],
                  [name |-> "Email",        type |-> T_VARCHAR],
                  [name |-> "Phone",        type |-> T_VARCHAR] >>

\* a field is NULL, empty, or one of two texts that hold the letter a
FieldValues == { NullValue, TextValue(<<>>), TextValue(<<"A">>), TextValue(<<"A", "b">>) }

BornValue == [kind |-> "date", text |-> <<"2","0","0","1">>]

\* the one-row tables the introduction is extracted from
PersonTables ==
    { Table(cols, << <<a, b, c>> >>, "none") :
        cols \in {NameColumns, InquiryColumns, MailColumns},
        a \in FieldValues, b \in FieldValues, c \in FieldValues }
    \cup
    { Table(RoleColumns, << <<a, b, c, BornValue, Forty>> >>, "none") :
        a \in FieldValues, b \in FieldValues, c \in FieldValues }

PersonPhrase == << "a" >>

PhraseChars == {"a", "B", "%", " "}
Phrases == SeqsUpTo(PhraseChars, MaxPhraseLen)
FewPhrases == { <<"a">>, <<"a", " ", "B">> }

\* more rows than the sample statement fetches; every one holds the letter a
ManyRows ==
    [k \in 1..(SampleLimit + 2) |->
        IF k % 3 = 1 THEN RowBoth ELSE IF k % 3 = 2 THEN RowOne ELSE RowFirst]

\* the table contents of a one-table store searched with pattern characters
LargeTables ==
    { Table(ContactColumns, ManyRows, "none"),
      Table(ContactColumns, ManyRows, "count"),
      Table(ContactColumns, <<RowFirst, RowOne, RowBoth>>, "none") }

\* phrases whose terms hold the characters LIKE reads as wildcards
PatternPhrases ==
    { <<"a">>, <<"_">>, <<"a", "_">>, <<"_", "b">>, <<"a", "%", "b">>,
      <<"a", " ", "_", "_">>, <<"b", " ", "%">> }

\* rows of a ContactColumns table that hold Linda
LindaFirst == << TextValue(<<"L","i","n","d","a">>), TextValue(<<"b">>), Forty >>
LindaLast  == << TextValue(<<"A">>), TextValue(<<"l","i","n","d","a">>), Forty >>

\* more rows than either sample statement fetches, every one holding Linda
ManyLindas ==
    [k \in 1..(SampleLimit + 2) |-> IF k % 2 = 1 THEN LindaFirst ELSE LindaLast]

\* tables of the stores the scripts are run on: one that is scanned, and one
\* for each fault of a scan
ScriptKinds ==
    { Table(ContactColumns, <<RowOne, LindaFirst>>, "none"),
      Table(ContactColumns, <<LindaFirst>>, "columns"),
      Table(ContactColumns, <<LindaLast>>, "sample"),
      Table(ContactColumns, <<LindaFirst, RowBoth>>, "count") }

\* a table of which no sample statement fetches every matching row, and a
\* table without a string column
ScriptSpecials ==
    { Table(ContactColumns, ManyLindas, "none"),
      Table(NoStringColumns, << <<Forty, TextValue(<<"L","i","n","d","a">>)>> >>, "none") }

\* the contents of the stores the scripts are run on: every sequence of
\* NumTables of the kinds, and each special table followed by one of them
ScriptContents ==
    [1..NumTables -> ScriptKinds]
        \cup { <<t, k>> : t \in ScriptSpecials, k \in ScriptKinds }

(***************************************************************************)
(* The store's evaluation of the statements the program sends.             *)
(***************************************************************************)
\* the term between the two outer % taken literally
LikeMut(pattern, s) ==
    IsSubstring(Upper(SubSeq(pattern, 2, Len(pattern) - 1)), Upper(s))

RECURSIVE Like(_, _)
\* s LIKE pattern under SQL Server's default case-insensitive collation:
\* % matches any run of characters, _ any one character
Like(pattern, s) ==
    IF pattern = <<>> THEN s = <<>>
    ELSE IF Head(pattern) = "%"
         THEN Like(Tail(pattern), s) \/ (s # <<>> /\ Like(pattern, Tail(s)))
         ELSE /\ s # <<>>
              /\ \/ Head(pattern) = "_"
                 \/ UpperChar(Head(pattern)) = UpperChar(Head(s))
              /\ Like(Tail(pattern), Tail(s))

\* position of column `name` in `columns`
ColumnIndex(columns, name) == CHOOSE j \in 1..Len(columns) : columns[j].name = name

\* [col] LIKE 'pattern' on a row: NULL never matches
EvalCondition(cond, columns, row) ==
    LET v == row[ColumnIndex(columns, cond.col)]
    IN  v.kind # "null" /\ Like(cond.pattern, v.text)

\* (c11 OR c12 ...) AND (c21 OR ...) AND ...
EvalWhere(where, columns, row) ==
    \A k \in 1..Len(where) :
        \E j \in 1..Len(where[k]) : EvalCondition(where[k][j], columns, row)

\* the rows of table t the WHERE clause selects, in the table's scan order
MatchingRows(t, where) == SelectSeq(t.rows, LAMBDA row : EvalWhere(where, t.columns, row))

MalformedMut(where) == FALSE

\* "SELECT ... WHERE " with no condition after it does not parse
Malformed(where) == where = <<>>

(***************************************************************************)
(* search_all_tables: the statements it builds and the entries it keeps.   *)
(***************************************************************************)
\* term_conditions: per term, one [col] LIKE '%term%' per string column
TermConditions(terms, cols) ==
    [k \in 1..Len(terms) |->
        [j \in 1..Len(cols) |->
            [col |-> cols[j], pattern |-> <<"%">> \o terms[k] \o <<"%">>]]]

\* list(result.keys()) of SELECT *: every column name of the table, in order
ColNames(columns) == [j \in 1..Len(columns) |-> columns[j].name]

\* dict(zip(col_names, row))
Record(col_names, row) ==
    [c \in {col_names[j] : j \in 1..Len(col_names)} |->
        row[CHOOSE j \in 1..Len(col_names) : col_names[j] = c]]

BudgetReachedMut(found, budget) == found > budget

\* len(found_results) >= max_tables
BudgetReached(found, budget) == found >= budget

CountRowsMut(t, where) == Len(t.rows)

\* SELECT COUNT(*) FROM t WHERE where
CountRows(t, where) == Len(MatchingRows(t, where))

\* SELECT TOP 10 * FROM t WHERE where
SampleRows(t, where) ==
    LET m == MatchingRows(t, where) IN SubSeq(m, 1, Min(SampleLimit, Len(m)))

\* the dict appended to found_results
TableMatch(name, count, col_names, sample) ==
    [table   |-> name,
     count   |-> count,
     columns |-> col_names,
     records |-> [k \in 1..Len(sample) |-> Record(col_names, sample[k])]]

AppendResultMut(results, entry) == <<entry>> \o results

\* found_results.append(...)
AppendResult(results, entry) == Append(results, entry)

(***************************************************************************)
(* combine_results.                                                        *)
(***************************************************************************)
WithSourceMut(record, name) == record

\* record.copy() with record['_source_table'] = table_name
WithSource(record, name) ==
    [c \in (DOMAIN record) \cup {"_source_table"} |->
        IF c = "_source_table" THEN name ELSE record[c]]

RECURSIVE CombineRecords(_)
\* all_records: the tagged copies, table by table
CombineRecords(table_results) ==
    IF table_results = <<>> THEN <<>>
    ELSE LET r == Head(table_results)
         IN  [k \in 1..Len(r.records) |-> WithSource(r.records[k], r.table)]
               \o CombineRecords(Tail(table_results))

InputAfterCombineMut(table_results) ==
    [m \in 1..Len(table_results) |->
        [table_results[m] EXCEPT
            !.records = [k \in 1..Len(table_results[m].records) |->
                            [c \in (DOMAIN table_results[m].records[k]) \cup {"_source_table"} |->
                                IF c = "_source_table" THEN table_results[m].table
                                ELSE table_results[m].records[k][c]]]]]

\* the caller's list after combine_results: the key is written to
\* record.copy(), a new dict, so the list and its records are as they were
InputAfterCombine(table_results) == table_results

\* (all_records, all_tables)
CombineResults(table_results) ==
    [records |-> CombineRecords(table_results),
     tables  |-> [k \in 1..Len(table_results) |-> table_results[k].table]]

(***************************************************************************)
(* introduce_person: the structured attributes of the introduction.        *)
(***************************************************************************)
Unknown      == <<"U","n","k","n","o","w","n">>
NotSpecified == <<"N","o","t"," ","s","p","e","c","i","f","i","e","d">>
NotAvailable == <<"N","/","A">>
Organization == <<"A","s","s","o","c","i","a","t","e","d"," ",
                  "o","r","g","a","n","i","z","a","t","i","o","n">>

\* str(value), the text an f-string puts for the value
Str(v) == IF v.kind = "null" THEN <<"N","o","n","e">> ELSE v.text

\* the value counts as true in a condition
Truthy(v) ==
    /\ v.kind # "null"
    /\ v.text # <<>>
    /\ v.kind = "int" => v.text # <<"0">>

RECURSIVE StripLeft(_)
StripLeft(s) == IF s # <<>> /\ IsSpace(Head(s)) THEN StripLeft(Tail(s)) ELSE s

RECURSIVE StripRight(_)
StripRight(s) ==
    IF s # <<>> /\ IsSpace(s[Len(s)]) THEN StripRight(SubSeq(s, 1, Len(s) - 1)) ELSE s

\* str.strip()
Strip(s) == StripRight(StripLeft(s))

\* record.get(key, default)
Get(record, key, default) == IF key \in DOMAIN record THEN record[key] ELSE default

\* elif 'Contact' in first_record: ... the value of the first key that is present
FirstPresent(record, keys) ==
    LET present == {i \in 1..Len(keys) : keys[i] \in DOMAIN record}
    IN  IF present = {} THEN TextValue(<<>>)
        ELSE record[keys[CHOOSE i \in present : \A j \in present : i <= j]]

\* the name taken from the first record
ExtractName(first_record) ==
    LET name == IF "FirstName" \in DOMAIN first_record /\ "LastName" \in DOMAIN first_record
                THEN TextValue(Strip(Str(first_record["FirstName"]) \o <<" ">>
                                     \o Str(first_record["LastName"])))
                ELSE FirstPresent(first_record, <<"Contact", "Attention", "Name">>)
    IN  IF Truthy(name) THEN name ELSE TextValue(Unknown)

\* record.get(k1) or record.get(k2) or record.get(k3)
FirstTruthy(record, keys) ==
    LET truthy == {i \in 1..Len(keys) :
                      keys[i] \in DOMAIN record /\ Truthy(record[keys[i]])}
    IN  IF truthy = {} THEN NullValue
        ELSE record[keys[CHOOSE i \in truthy : \A j \in truthy : i <= j]]

\* the records of all entries, in order
RECURSIVE AllRecords(_)
AllRecords(table_results) ==
    IF table_results = <<>> THEN <<>>
    ELSE Head(table_results).records \o AllRecords(Tail(table_results))

\* the distinct truthy values found under `keys`, as texts, in record order
RECURSIVE Collect(_, _, _)
Collect(records, keys, acc) ==
    IF records = <<>> THEN acc
    ELSE LET v == FirstTruthy(Head(records), keys)
             seen == v.kind = "text" /\ \E i \in 1..Len(acc) : acc[i] = v.text
         IN  Collect(Tail(records), keys,
                     IF Truthy(v) /\ ~seen THEN Append(acc, Str(v)) ELSE acc)

\* ', '.join(items)
RECURSIVE Join(_)
Join(items) ==
    IF items = <<>> THEN <<>>
    ELSE IF Len(items) = 1 THEN items[1]
    ELSE items[1] \o <<",", " ">> \o Join(Tail(items))

\* ', '.join(items[:2]) if items else 'N/A'
FirstTwoOrNA(items) ==
    IF items = <<>> THEN NotAvailable ELSE Join(SubSeq(items, 1, Min(2, Len(items))))

ContactInfo(emails, phones) ==
    <<"E","m","a","i","l",":"," ">> \o FirstTwoOrNA(emails)
        \o <<",", " ", "P","h","o","n","e",":"," ">> \o FirstTwoOrNA(phones)

NoIntroduction ==
    [status |-> "none", name |-> <<>>, role_title |-> <<>>, company |-> <<>>,
     contact_info |-> <<>>, data_sources |-> <<>>]

\* introduce_person(question, table_results) for a non-empty list: the
\* PersonIntroduction without its summary text, or the validation error raised
\* for an attribute that is not a string
IntroducePerson(table_results) ==
    LET first_record == table_results[1].records[1]
        name    == ExtractName(first_record)
        role    == Get(first_record, "Position",
                       Get(first_record, "Title", TextValue(NotSpecified)))
        company == Get(first_record, "CustomerName", TextValue(Organization))
        emails  == Collect(AllRecords(table_results),
                           <<"EmailAddress", "EMail_Address", "Email">>, <<>>)
        phones  == Collect(AllRecords(table_results),
                           <<"PhoneNumber", "Phone", "MobilePhone">>, <<>>)
    IN  IF \E v \in {name, role, company} : v.kind # "text"
        THEN [NoIntroduction EXCEPT !.status = "raised"]
        ELSE [status       |-> "ok",
              name         |-> name.text,
              role_title   |-> role.text,
              company      |-> company.text,
              contact_info |-> ContactInfo(emails, phones),
              data_sources |-> CombineResults(table_results).tables]

(***************************************************************************)
(* query_sql_noninteractive (agents.py): what the agent's response holds   *)
(* and the dict built from it.                                             *)
(***************************************************************************)
MaxToolCalls == 2

\* reasoning is content[:500]
ReasoningLimit == 500

SqlOne   == <<"Q", "1">>
SqlTwo   == <<"Q", "2">>
SqlThree == <<"Q", "3">>

\* a tool call of the response: the function name, what its arguments are
\* ("empty": none, "invalid": a string that is not JSON, "dict": an object),
\* and the object's sql entry when it has one
ToolCall(name, form, has_sql, sql) ==
    [name |-> name, form |-> form, has_sql |-> has_sql, sql |-> sql]

ToolCallPool ==
    { ToolCall("search_tables", "dict",    FALSE, NullValue),
      ToolCall("run_sql_query", "dict",    TRUE,  TextValue(SqlOne)),
      ToolCall("run_sql_query", "dict",    TRUE,  TextValue(<<>>)),
      ToolCall("run_sql_query", "dict",    FALSE, NullValue),
      ToolCall("run_sql_query", "invalid", FALSE, NullValue),
      ToolCall("",              "dict",    TRUE,  TextValue(SqlTwo)) }

\* the response text: its length and what the three patterns find in it (the
\* bodies of the ```sql blocks, the bodies of the blocks that start with
\* SELECT, the first raw SELECT statement); `raises`: the agent run raised
Content(id, length, sql_blocks, select_blocks, raw_select, raises) ==
    [id |-> id, length |-> length, sql_blocks |-> sql_blocks,
     select_blocks |-> select_blocks, raw_select |-> raw_select, raises |-> raises]

ContentPool ==
    { Content("prose",      12,  <<>>, <<>>, NullValue, FALSE),
      Content("long prose", 600, <<>>, <<>>, NullValue, FALSE),
      Content("sql block",  40,  << <<" ">> \o SqlTwo \o <<" ">> >>, <<>>,
              TextValue(SqlThree), FALSE),
      Content("two sql blocks", 80, << SqlTwo, SqlThree >>, <<>>,
              TextValue(SqlTwo), FALSE),
      Content("empty sql block", 20, << <<>> >>, <<>>, NullValue, FALSE),
      Content("select block", 40, <<>>, << SqlThree \o <<" ">> >>,
              TextValue(SqlTwo), FALSE),
      Content("raw select", 30, <<>>, <<>>, TextValue(SqlThree \o <<" ">>), FALSE),
      Content("no response", 0, <<>>, <<>>, NullValue, TRUE) }

\* what running the statement does: it raises, or it yields rows
ExecOutcomes == {"error", "empty", "rows"}

SomeRows == << [CustomerNumber |-> 40] >>

\* a call of query_sql_noninteractive and what its environment answers
Requests ==
    [calls           : SeqsUpTo(ToolCallPool, MaxToolCalls),
     content         : ContentPool,
     execute         : BOOLEAN,
     return_insights : BOOLEAN,
     exec            : ExecOutcomes,
     insight_raises  : BOOLEAN]

NoRequest ==
    [calls |-> <<>>, content |-> Content("prose", 12, <<>>, <<>>, NullValue, FALSE),
     execute |-> FALSE, return_insights |-> FALSE, exec |-> "empty",
     insight_raises |-> FALSE]

\* tools_used after the loop over the tool calls: the names that are not empty
ToolsUsed(calls) ==
    LET named == SelectSeq(calls, LAMBDA c : c.name # "")
    IN  [i \in 1..Len(named) |-> named[i].name]

\* sql_query after the loop over the tool calls: the sql entry of the last
\* run_sql_query call whose arguments parse to an object that has one
RECURSIVE SqlFromCalls(_, _)
SqlFromCalls(calls, acc) ==
    IF calls = <<>> THEN acc
    ELSE LET c == Head(calls)
             found == c.name = "run_sql_query" /\ c.form = "dict" /\ c.has_sql
         IN  SqlFromCalls(Tail(calls), IF found THEN c.sql ELSE acc)

\* sql_query from the response text: the last ```sql block, else the last
\* block starting with SELECT, else the raw SELECT statement, stripped
SqlFromContent(content) ==
    IF content.sql_blocks # <<>>
    THEN TextValue(Strip(content.sql_blocks[Len(content.sql_blocks)]))
    ELSE IF content.select_blocks # <<>>
    THEN TextValue(Strip(content.select_blocks[Len(content.select_blocks)]))
    ELSE IF content.raw_select.kind # "null"
    THEN TextValue(Strip(content.raw_select.text))
    ELSE NullValue

\* the statement the function settles on
ExtractSql(calls, content) ==
    LET from_calls == SqlFromCalls(calls, NullValue)
    IN  IF Truthy(from_calls) THEN from_calls ELSE SqlFromContent(content)

\* list(set(tools_used))
Unique(names) == {names[i] : i \in 1..Len(names)}

\* the dict returned when no statement was found
ErrorDict(content, names) ==
    [error        |-> "Could not extract SQL from agent response",
     raw_response |-> content.id,
     tools_used   |-> Unique(names)]

\* result = {"sql": ..., "reasoning": ..., "tools_used": ..., "tool_count": ...}
BaseDict(sql, content, names) ==
    [sql        |-> sql.text,
     reasoning  |-> [of |-> content.id, length |-> Min(content.length, ReasoningLimit)],
     tools_used |-> Unique(names),
     tool_count |-> Len(names)]

\* result[key] = value
Put(dict, key, value) ==
    [k \in (DOMAIN dict) \cup {key} |-> IF k = key THEN value ELSE dict[k]]

\* if return_insights and execute and result.get("results"):
InsightsWanted(req, dict) ==
    /\ req.return_insights
    /\ req.execute
    /\ "results" \in DOMAIN dict
    /\ dict["results"] # <<>>

NoDict == [none |-> TRUE]

(***************************************************************************)
(* search_person.py: the script's scan of every table for its argument.    *)
(***************************************************************************)
PersonSampleLimit == 10

\* lines 33-37: the names of the string columns
PersonStringCols(columns) ==
    LET keep == SelectSeq(columns,
                          LAMBDA col : \E t \in { <<"V","A","R","C","H","A","R">>,
                                                  <<"N","V","A","R","C","H","A","R">>,
                                                  <<"T","E","X","T">>,
                                                  <<"C","H","A","R">> } :
                                          IsSubstring(t, Upper(col.type)))
    IN  [j \in 1..Len(keep) |-> keep[j].name]

\* lines 43-49: one disjunction over the columns per term, joined by AND
PersonWhere(terms, cols) ==
    [k \in 1..Len(terms) |->
        [j \in 1..Len(cols) |->
            [col |-> cols[j], pattern |-> <<"%">> \o terms[k] \o <<"%">>]]]

\* SELECT TOP 10 * FROM t WHERE where
PersonSample(t, where) ==
    LET m == MatchingRows(t, where) IN SubSeq(m, 1, Min(PersonSampleLimit, Len(m)))

PersonCountMut(t, where) == Len(t.rows)

\* SELECT COUNT(*) FROM t WHERE where
PersonCount(t, where) == Len(MatchingRows(t, where))

\* the dict appended to found_results
PersonMatch(t, total_count, fetched) ==
    LET col_names == [j \in 1..Len(t.columns) |-> t.columns[j].name]
    IN  [table   |-> t.name,
         count   |-> total_count,
         columns |-> col_names,
         records |-> [k \in 1..Len(fetched) |->
                         [c \in {col_names[j] : j \in 1..Len(col_names)} |->
                             fetched[k][CHOOSE j \in 1..Len(col_names) : col_names[j] = c]]]]

\* a script that has not been run
NoRun == [status |-> "none", value |-> <<>>]

\* the locals of a script that is not running
ScriptOff ==
    [pc |-> "off", search_terms |-> <<>>, all_tables |-> <<>>, idx |-> 0,
     string_cols |-> <<>>, where_clause |-> <<>>, rows |-> <<>>]

\* the locals of a script about to run
ScriptStart == [ScriptOff EXCEPT !.pc = "start"]

\* the for loop of a script moves on: to the next table, or behind the loop
\* and to the end of the script
ScriptContinue(p) ==
    [p EXCEPT !.idx = @ + 1,
              !.string_cols = <<>>,
              !.where_clause = <<>>,
              !.rows = <<>>,
              !.pc = IF p.idx + 1 > Len(p.all_tables) THEN "done" ELSE "columns"]

\* how a script whose locals are p stands
ScriptStatus(p) == IF p.pc = "done" THEN "ok" ELSE "running"

(***************************************************************************)
(* search_linda.py: the script's scan of every table for 'Linda'.          *)
(***************************************************************************)
LindaSampleLimit == 5

LindaShownCols == 5

Linda == <<"L","i","n","d","a">>

\* lines 33-37: the names of the string columns
LindaStringCols(columns) ==
    LET keep == SelectSeq(columns,
                          LAMBDA col : \E t \in { <<"V","A","R","C","H","A","R">>,
                                                  <<"N","V","A","R","C","H","A","R">>,
                                                  <<"T","E","X","T">>,
                                                  <<"C","H","A","R">> } :
                                          IsSubstring(t, Upper(col.type)))
    IN  [j \in 1..Len(keep) |-> keep[j].name]

\* line 43: one disjunction over the columns
LindaWhere(cols) ==
    << [j \in 1..Len(cols) |-> [col |-> cols[j], pattern |-> <<"%">> \o Linda \o <<"%">>]] >>

LindaSampleMut(t, where) == MatchingRows(t, where)

\* SELECT TOP 5 * FROM t WHERE conditions
LindaSample(t, where) ==
    LET m == MatchingRows(t, where) IN SubSeq(m, 1, Min(LindaSampleLimit, Len(m)))

\* SELECT COUNT(*) FROM t WHERE conditions
LindaCount(t, where) == Len(MatchingRows(t, where))

\* the dict appended to results_summary
LindaSummary(t, total_count, cols) ==
    [table |-> t.name, count |-> total_count,
     string_columns |-> SubSeq(cols, 1, Min(LindaShownCols, Len(cols)))]

\* detailed_results[table_name]
LindaDetail(t, fetched) ==
    LET col_names == [j \in 1..Len(t.columns) |-> t.columns[j].name]
    IN  [table   |-> t.name,
         columns |-> col_names,
         rows    |-> [k \in 1..Len(fetched) |->
                         [c \in {col_names[j] : j \in 1..Len(col_names)} |->
                             fetched[k][CHOOSE j \in 1..Len(col_names) : col_names[j] = c]]]]

(***************************************************************************)
(* query_and_introduce.                                                    *)
(***************************************************************************)
AskMaxTables == 10

QuestionChars == {"a", "B", " ", "\t"}
Questions == SeqsUpTo(QuestionChars, MaxQuestionLen)

\* the table contents of the stores questions are put to
AskTables ==
    { Table(ContactColumns, <<RowOne, RowBoth>>, "none"),
      Table(ContactColumns, <<RowNull>>, "none"),
      Table(RoleColumns,
            << <<NullValue, TextValue(<<"A">>), TextValue(<<"A","b">>), BornValue, Forty>> >>,
            "none") }

\* ' ' in question
HasBlank(q) == \E i \in 1..Len(q) : q[i] = " "

\* question.split()[-1] if ' ' in question else question; the index is out of
\* range when the split is empty
SearchTerm(q) ==
    IF HasBlank(q)
    THEN IF Split(q) = <<>> THEN [raised |-> TRUE, term |-> <<>>]
         ELSE [raised |-> FALSE, term |-> Split(q)[Len(Split(q))]]
    ELSE [raised |-> FALSE, term |-> q]

NoAnswer ==
    [status |-> "none", tables_to_query |-> <<>>, all_records |-> <<>>,
     introduction |-> NoIntroduction]

\* an exception leaves query_and_introduce
Raised == [NoAnswer EXCEPT !.status = "raised"]

\* return None, None, None
Nothing == [NoAnswer EXCEPT !.status = "nothing"]

(***************************************************************************)
(* main.py, GET /health.                                                   *)
(***************************************************************************)
HttpOk == 200

\* what engine.connect() and conn.execute(text("SELECT 1")) do
SqlOutcomes == {"ok", "connect_fault", "execute_fault"}

\* what the Ollama probe meets: httpx cannot be imported, httpx.get raises
\* (refused, timeout), or a reply with a status code and a body
Reply(kind, code, form, names) ==
    [kind |-> kind, code |-> code, form |-> form, names |-> names]

\* the names the server lists
ModelNames == { [i \in 1..n |-> <<"m">>] : n \in 0..MaxModels }

\* the bodies of a reply: a dict with a list of named models, a dict without
\* the key models, a model without the key name, a JSON list, not JSON
OllamaReplies ==
    { Reply("no_httpx", 0, "none", <<>>), Reply("unreachable", 0, "none", <<>>) }
    \cup { Reply("reply", HttpOk, "models", names) : names \in ModelNames }
    \cup { Reply("reply", code, form, <<>>) :
              code \in {HttpOk, 404, 500},
              form \in {"no_models_key", "nameless", "json_list", "not_json"} }

NoHealthEnv == [sql |-> "ok", ollama |-> Reply("no_httpx", 0, "none", <<>>)]

\* status[key] = value
SetKey(dict, key, value) ==
    [k \in (DOMAIN dict) \cup {key} |-> IF k = key THEN value ELSE dict[k]]

NoStatus == [k \in {} |-> FALSE]

\* status = {"status": "ok", "sql_server": False, "ollama": False}
FreshStatus ==
    [k \in {"status", "sql_server", "ollama"} |-> IF k = "status" THEN "ok" ELSE FALSE]

\* the first try block
SqlProbe(dict, sql) ==
    IF sql = "ok" THEN SetKey(dict, "sql_server", TRUE)
    ELSE SetKey(dict, "sql_server_error", sql)

\* [m["name"] for m in resp.json().get("models", [])] raises
BodyRaises(reply) == reply.form \in {"nameless", "json_list", "not_json"}

\* the second try block
OllamaProbe(dict, reply) ==
    IF reply.kind # "reply" THEN SetKey(dict, "ollama", FALSE)
    ELSE LET seen == SetKey(dict, "ollama", reply.code = HttpOk) IN
         IF reply.code # HttpOk THEN seen
         ELSE IF BodyRaises(reply) THEN SetKey(seen, "ollama", FALSE)
         ELSE SetKey(seen, "ollama_models", reply.names)

DegradedMut(dict) == ~dict["sql_server"] /\ ~dict["ollama"]

\* not status["sql_server"] or not status["ollama"]
Degraded(dict) == ~dict["sql_server"] \/ ~dict["ollama"]

(***************************************************************************)
(* State.                                                                  *)
(***************************************************************************)
VARIABLES
    store,          \* the database: tables in catalog order, and whether listing them faults
    phrase,         \* the caller's search phrase
    max_tables,     \* the caller's table budget
    pc,             \* where the caller / search_all_tables stands
    search_terms,   \* search_term.split()
    all_tables,     \* insp.get_table_names()
    idx,            \* position of the for loop in all_tables
    found_results,  \* the list being built
    string_cols,    \* string columns of the table being scanned
    where_clause,   \* term conditions of the table being scanned
    rows,           \* result.fetchall() of the sample query
    ops,            \* accesses made to the store by the current call, in order
    errors,         \* tables whose scan raised in the current call, in order
    returned,       \* outcome of every finished call, in order
    combined,       \* combine_results of the last returned list
    conn,           \* the connection of the with block (0 outside of it)
    open_conns,     \* the connections acquired and not yet released
    queries,        \* statements executed by the current call, in order
    introduction,   \* introduce_person of the last returned list
    request,        \* query_sql_noninteractive: the call and its environment
    qpc,            \* query_sql_noninteractive: where it stands
    tools_used,     \* query_sql_noninteractive: names of the tool calls
    sql_query,      \* query_sql_noninteractive: the statement extracted
    result,         \* query_sql_noninteractive: the dict being built
    outcome,        \* query_sql_noninteractive: "none", "returned" or "raised"
    invocations,    \* interleaved calls of search_all_tables: the locals of each
    lists,          \* the list objects the interleaved calls build, by identity
    person,         \* search_person.py: where the script stands, and its locals
    person_results, \* search_person.py: how the script stands, and its found_results
    linda,          \* search_linda.py: where the script stands, and its locals
    linda_results,  \* search_linda.py: how the script stands, and its two collections
    question,       \* query_and_introduce: its argument
    chat_fault,     \* query_and_introduce: whether ollama.chat raises
    answer,         \* query_and_introduce: how it ended and what it returned
    health_env,     \* /health: what the SQL Server and Ollama do when probed
    hpc,            \* /health: where health_check stands
    status,         \* /health: the dict being built
    probes,         \* /health: the probes run by the current request, in order
    checks          \* /health: what every finished request returned, in order

searchVars == << store, phrase, max_tables, pc, search_terms, all_tables, idx,
                 found_results, string_cols, where_clause, rows, ops, errors,
                 returned, combined, conn, open_conns, queries, introduction >>

queryVars == << request, qpc, tools_used, sql_query, result, outcome >>

pairVars == << invocations, lists >>

scriptVars == << person, person_results, linda, linda_results >>

askVars == << question, chat_fault, answer >>

healthVars == << health_env, hpc, status, probes, checks >>

sideVars == << scriptVars, askVars, healthVars >>

vars == << searchVars, queryVars, pairVars, sideVars >>

NoCombined == [records |-> <<>>, tables |-> <<>>]

\* a store of the given table contents, named in catalog order
Store(contents, listFault) ==
    [tables |-> [i \in 1..Len(contents) |->
                    [name    |-> TableNames[i],
                     columns |-> contents[i].columns,
                     rows    |-> contents[i].rows,
                     fault   |-> contents[i].fault]],
     listFault |-> listFault]

\* insp.get_table_names()
NamesOfStore == [i \in 1..Len(store.tables) |-> store.tables[i].name]

\* the table the catalog knows under `name`
TableOf(name) ==
    store.tables[CHOOSE i \in 1..Len(store.tables) : store.tables[i].name = name]

\* nothing is left of a call of search_all_tables
SearchCleared ==
    /\ search_terms = <<>>
    /\ all_tables = <<>>
    /\ idx = 0
    /\ found_results = <<>>
    /\ string_cols = <<>>
    /\ where_clause = <<>>
    /\ rows = <<>>
    /\ ops = <<>>
    /\ errors = <<>>
    /\ returned = <<>>
    /\ combined = NoCombined
    /\ conn = 0
    /\ open_conns = {}
    /\ queries = <<>>
    /\ introduction = NoIntroduction

\* no call of search_all_tables has been made
SearchIdle ==
    /\ pc = "idle"
    /\ SearchCleared

\* no call of query_sql_noninteractive is made
QueryIdle ==
    /\ request = NoRequest
    /\ qpc = "done"
    /\ tools_used = <<>>
    /\ sql_query = NullValue
    /\ result = NoDict
    /\ outcome = "none"

\* no interleaved calls are made
PairIdle ==
    /\ invocations = <<>>
    /\ lists = <<>>

\* neither script has been run
ScriptIdle ==
    /\ person = ScriptOff
    /\ person_results = NoRun
    /\ linda = ScriptOff
    /\ linda_results = NoRun

\* query_and_introduce is not called
AskIdle ==
    /\ question = <<>>
    /\ chat_fault = FALSE
    /\ answer = NoAnswer

\* no request is made to /health
HealthIdle ==
    /\ health_env = NoHealthEnv
    /\ hpc = "off"
    /\ status = NoStatus
    /\ probes = <<>>
    /\ checks = <<>>

SideIdle == ScriptIdle /\ AskIdle /\ HealthIdle

Init ==
    /\ \/ /\ store \in { Store(c, lf) : c \in [1..NumTables -> TableKinds], lf \in BOOLEAN }
          /\ phrase \in FewPhrases
          /\ max_tables \in 0..MaxBudget
       \/ /\ store \in { Store(<<t>>, FALSE) : t \in SingleTables }
          /\ phrase \in Phrases
          /\ max_tables = DefaultMaxTables
       \/ /\ store \in { Store(<<t>>, FALSE) : t \in PersonTables }
          /\ phrase = PersonPhrase
          /\ max_tables = DefaultMaxTables
       \/ /\ store \in { Store(<<t>>, FALSE) : t \in LargeTables }
          /\ phrase \in PatternPhrases
          /\ max_tables = DefaultMaxTables
    /\ SearchIdle
    /\ QueryIdle
    /\ PairIdle
    /\ SideIdle

(***************************************************************************)
(* Steps of search_all_tables and of its caller.                           *)
(***************************************************************************)
Access(op) == [table |-> all_tables[idx], op |-> op]

\* a statement executed on connection c for the table being scanned: its
\* predicate, whether it raised, and the number it produced (rows fetched by
\* the sample statement, the scalar of the count statement)
Query(op, c, raised, value) ==
    [table |-> all_tables[idx], op |-> op, where |-> where_clause, conn |-> c,
     raised |-> raised, value |-> value]

\* engine.connect() hands out a connection not handed out before in this call
NewConn == Len(ops) + 1

\* entering the with block
Acquire(conns, c) == conns \cup {c}

ReleaseMut(conns, c) == conns

\* leaving the with block, by its end or by an exception
Release(conns, c) == conns \ {c}

HasRowsMut(fetched) == TRUE

\* if rows:
HasRows(fetched) == fetched # <<>>

\* go on with the next table of the for loop
Continue ==
    /\ pc' = "loop"
    /\ idx' = idx + 1
    /\ string_cols' = <<>>
    /\ where_clause' = <<>>
    /\ rows' = <<>>
    /\ UNCHANGED returned

\* the exception leaves search_all_tables (what the except clause prevents)
OnErrorPropagates ==
    /\ pc' = "idle"
    /\ returned' = Append(returned, [status |-> "raised", value |-> <<>>])
    /\ string_cols' = <<>>
    /\ where_clause' = <<>>
    /\ rows' = <<>>
    /\ UNCHANGED idx

\* the failed table is scanned again (what the for loop does not do)
OnErrorRetry ==
    /\ pc' = "columns"
    /\ string_cols' = <<>>
    /\ where_clause' = <<>>
    /\ rows' = <<>>
    /\ UNCHANGED << idx, returned >>

\* except Exception: pass
OnError == Continue

StaleResults == found_results

\* found_results = []
FreshResults == <<>>

\* the caller calls search_all_tables(phrase, max_tables); the statements before the loop
Call ==
    /\ pc = "idle"
    /\ Len(returned) < MaxCalls
    /\ search_terms' = Split(phrase)
    /\ ops' = <<>>
    /\ errors' = <<>>
    /\ combined' = NoCombined
    /\ string_cols' = <<>>
    /\ where_clause' = <<>>
    /\ rows' = <<>>
    /\ IF store.listFault
       THEN /\ pc' = "idle"
            /\ returned' = Append(returned, [status |-> "raised", value |-> <<>>])
            /\ UNCHANGED << all_tables, idx, found_results >>
       ELSE /\ all_tables' = [i \in 1..Len(store.tables) |-> store.tables[i].name]
            /\ found_results' = FreshResults
            /\ idx' = 1
            /\ pc' = "loop"
            /\ UNCHANGED returned
    /\ queries' = <<>>
    /\ introduction' = NoIntroduction
    /\ UNCHANGED << store, phrase, max_tables, conn, open_conns >>
    /\ UNCHANGED << queryVars, pairVars, sideVars >>

\* for table_name in all_tables: if len(found_results) >= max_tables: break
LoopHead ==
    /\ pc = "loop"
    /\ IF idx > Len(all_tables) \/ BudgetReached(Len(found_results), max_tables)
       THEN pc' = "return"
       ELSE pc' = "columns"
    /\ UNCHANGED << store, phrase, max_tables, search_terms, all_tables, idx,
                    found_results, string_cols, where_clause, rows, ops, errors,
                    returned, combined, conn, open_conns, queries, introduction >>
    /\ UNCHANGED << queryVars, pairVars, sideVars >>

\* insp.get_columns(table_name), the string columns, the WHERE clause
GetColumns ==
    /\ pc = "columns"
    /\ ops' = Append(ops, Access("columns"))
    /\ LET t == TableOf(all_tables[idx]) IN
       IF t.fault = "columns"
       THEN /\ errors' = Append(errors, t.name)
            /\ OnError
       ELSE /\ UNCHANGED errors
            /\ LET cols == StringCols(t.columns) IN
               IF cols = <<>>
               THEN Continue
               ELSE /\ string_cols' = cols
                    /\ where_clause' = TermConditions(search_terms, cols)
                    /\ pc' = "sample"
                    /\ UNCHANGED << idx, rows, returned >>
    /\ UNCHANGED << store, phrase, max_tables, search_terms, all_tables,
                    found_results, combined, conn, open_conns, queries, introduction >>
    /\ UNCHANGED << queryVars, pairVars, sideVars >>

\* with engine.connect() as conn: conn.execute(text(sql)); rows = result.fetchall(); if rows:
SampleQuery ==
    /\ pc = "sample"
    /\ ops' = Append(ops, Access("sample"))
    /\ LET t == TableOf(all_tables[idx])
           c == NewConn
       IN
       IF t.fault = "sample" \/ Malformed(where_clause)
       THEN /\ errors' = Append(errors, t.name)
            /\ queries' = Append(queries, Query("sample", c, TRUE, 0))
            /\ open_conns' = Release(Acquire(open_conns, c), c)
            /\ conn' = 0
            /\ OnError
       ELSE /\ UNCHANGED errors
            /\ LET top == SampleRows(t, where_clause) IN
               /\ queries' = Append(queries, Query("sample", c, FALSE, Len(top)))
               /\ IF HasRows(top)
                  THEN /\ rows' = top
                       /\ pc' = "count"
                       /\ conn' = c
                       /\ open_conns' = Acquire(open_conns, c)
                       /\ UNCHANGED << idx, string_cols, where_clause, returned >>
                  ELSE /\ open_conns' = Release(Acquire(open_conns, c), c)
                       /\ conn' = 0
                       /\ Continue
    /\ UNCHANGED << store, phrase, max_tables, search_terms, all_tables,
                    found_results, combined, introduction >>
    /\ UNCHANGED << queryVars, pairVars, sideVars >>

\* total_count = conn.execute(text(count_sql)).scalar(); found_results.append(...)
CountQuery ==
    /\ pc = "count"
    /\ ops' = Append(ops, Access("count"))
    /\ LET t == TableOf(all_tables[idx]) IN
       IF t.fault = "count"
       THEN /\ errors' = Append(errors, t.name)
            /\ queries' = Append(queries, Query("count", conn, TRUE, 0))
            /\ OnError
            /\ UNCHANGED found_results
       ELSE /\ UNCHANGED errors
            /\ LET total_count == CountRows(t, where_clause) IN
               /\ queries' = Append(queries, Query("count", conn, FALSE, total_count))
               /\ found_results' =
                     AppendResult(found_results,
                                  TableMatch(t.name, total_count,
                                             ColNames(t.columns), rows))
            /\ Continue
    /\ open_conns' = Release(open_conns, conn)
    /\ conn' = 0
    /\ UNCHANGED << store, phrase, max_tables, search_terms, all_tables, combined,
                    introduction >>
    /\ UNCHANGED << queryVars, pairVars, sideVars >>

\* return found_results
Return ==
    /\ pc = "return"
    /\ returned' = Append(returned, [status |-> "ok", value |-> found_results])
    /\ pc' = "combine"
    /\ UNCHANGED << store, phrase, max_tables, search_terms, all_tables, idx,
                    found_results, string_cols, where_clause, rows, ops, errors,
                    combined, conn, open_conns, queries, introduction >>
    /\ UNCHANGED << queryVars, pairVars, sideVars >>

\* the caller's all_records, table_names = combine_results(table_results)
Combine ==
    /\ pc = "combine"
    /\ combined' = CombineResults(returned[Len(returned)].value)
    /\ returned' = [returned EXCEPT ![Len(returned)].value = InputAfterCombine(@)]
    /\ pc' = IF returned[Len(returned)].value = <<>> THEN "idle" ELSE "introduce"
    /\ UNCHANGED << store, phrase, max_tables, search_terms, all_tables, idx,
                    found_results, string_cols, where_clause, rows, ops, errors,
                    conn, open_conns, queries, introduction >>
    /\ UNCHANGED << queryVars, pairVars, sideVars >>

\* the caller's introduction = introduce_person(question, table_results):
\* ollama.chat is called before anything is extracted, and its exception
\* leaves introduce_person with no PersonIntroduction built
Introduce ==
    /\ pc = "introduce"
    /\ introduction' = IF chat_fault
                       THEN [NoIntroduction EXCEPT !.status = "raised"]
                       ELSE IntroducePerson(returned[Len(returned)].value)
    /\ pc' = "idle"
    /\ UNCHANGED << store, phrase, max_tables, search_terms, all_tables, idx,
                    found_results, string_cols, where_clause, rows, ops, errors,
                    returned, combined, conn, open_conns, queries >>
    /\ UNCHANGED << queryVars, pairVars, sideVars >>

Next ==
    \/ Call
    \/ LoopHead
    \/ GetColumns
    \/ SampleQuery
    \/ CountQuery
    \/ Return
    \/ Combine
    \/ Introduce

Spec == Init /\ [][Next]_vars

(***************************************************************************)
(* Steps of query_sql_noninteractive.                                      *)
(***************************************************************************)
\* response = dash_sql.run(question, stream=False)
RunAgent ==
    /\ qpc = "start"
    /\ IF request.content.raises
       THEN /\ outcome' = "raised"
            /\ qpc' = "done"
       ELSE /\ qpc' = "extract"
            /\ UNCHANGED outcome
    /\ UNCHANGED << request, tools_used, sql_query, result, searchVars, pairVars, sideVars >>

\* the tool calls and the text are searched for a statement; the error dict
\* is returned when there is none, the result dict is started otherwise
Extract ==
    /\ qpc = "extract"
    /\ LET names == ToolsUsed(request.calls)
           sql   == ExtractSql(request.calls, request.content)
       IN
       /\ tools_used' = names
       /\ sql_query' = sql
       /\ IF ~Truthy(sql)
          THEN /\ result' = ErrorDict(request.content, names)
               /\ outcome' = "returned"
               /\ qpc' = "done"
          ELSE /\ result' = BaseDict(sql, request.content, names)
               /\ qpc' = IF request.execute THEN "execute" ELSE "insights"
               /\ UNCHANGED outcome
    /\ UNCHANGED << request, searchVars, pairVars, sideVars >>

\* if execute: the statement is run; a failure is put into the dict and returned
Execute ==
    /\ qpc = "execute"
    /\ IF request.exec = "error"
       THEN /\ result' = Put(Put(result, "error", "execution failed"), "results", <<>>)
            /\ outcome' = "returned"
            /\ qpc' = "done"
       ELSE /\ LET results == IF request.exec = "rows" THEN SomeRows ELSE <<>>
               IN  result' = Put(Put(result, "results", results),
                                 "row_count", Len(results))
            /\ qpc' = "insights"
            /\ UNCHANGED outcome
    /\ UNCHANGED << request, tools_used, sql_query, searchVars, pairVars, sideVars >>

\* the insights are added when wanted; return result
Finish ==
    /\ qpc = "insights"
    /\ qpc' = "done"
    /\ IF InsightsWanted(request, result)
       THEN IF request.insight_raises
            THEN /\ outcome' = "raised"
                 /\ UNCHANGED result
            ELSE /\ result' = Put(result, "insights", "summary")
                 /\ outcome' = "returned"
       ELSE /\ outcome' = "returned"
            /\ UNCHANGED result
    /\ UNCHANGED << request, tools_used, sql_query, searchVars, pairVars, sideVars >>

\* one call of query_sql_noninteractive, on any response of the agent
InitQuery ==
    /\ store = Store(<<>>, FALSE)
    /\ phrase = <<>>
    /\ max_tables = 0
    /\ SearchIdle
    /\ request \in Requests
    /\ qpc = "start"
    /\ tools_used = <<>>
    /\ sql_query = NullValue
    /\ result = NoDict
    /\ outcome = "none"
    /\ PairIdle
    /\ SideIdle

NextQuery == RunAgent \/ Extract \/ Execute \/ Finish

SpecQuery == InitQuery /\ [][NextQuery]_vars

(***************************************************************************)
(* Two calls of search_all_tables interleaved step by step over one store. *)
(* Each call has its own locals; the list a call builds is an object of    *)
(* the heap `lists`, reached through the call's reference.                 *)
(***************************************************************************)
Invocations == {1, 2}

\* the table contents of the store the interleaved calls search
PairKinds ==
    { Table(ContactColumns, << RowBoth >>, "none"),
      Table(ContactColumns, << RowFirst, RowOne, RowBoth >>, "none"),
      Table(NoStringColumns, << RowComment >>, "none"),
      Table(ContactColumns, << RowOne, RowBoth >>, "count") }

\* a call of search_all_tables(search_term, budget) that has not started
\* (overlaps: the call started while another one was in its loop)
NewInvocation(search_term, budget) ==
    [pc |-> "start", search_term |-> search_term, max_tables |-> budget,
     search_terms |-> <<>>, all_tables |-> <<>>, idx |-> 0, ref |-> 0,
     string_cols |-> <<>>, where_clause |-> <<>>, rows |-> <<>>, value |-> <<>>,
     overlaps |-> FALSE]

SharedList(i) == 1

\* found_results = []: the call's own new list object
OwnList(i) == i

\* the call goes on with the next table (also what its except clause does)
NextTable(l) ==
    [l EXCEPT !.pc = "loop", !.idx = l.idx + 1, !.string_cols = <<>>,
              !.where_clause = <<>>, !.rows = <<>>]

\* the statements before the loop
PairCall(i) ==
    /\ invocations[i].pc = "start"
    /\ LET l == invocations[i] IN
       IF store.listFault
       THEN /\ invocations' = [invocations EXCEPT ![i] = [l EXCEPT !.pc = "raised"]]
            /\ UNCHANGED lists
       ELSE /\ invocations' =
                  [invocations EXCEPT ![i] =
                      [l EXCEPT !.pc = "loop",
                                !.search_terms = Split(l.search_term),
                                !.all_tables = NamesOfStore,
                                !.idx = 1,
                                !.ref = OwnList(i),
                                !.overlaps =
                                    \E j \in Invocations \ {i} :
                                        invocations[j].pc \in
                                            {"loop", "columns", "sample", "count"}]]
            /\ lists' = [lists EXCEPT ![OwnList(i)] = <<>>]
    /\ UNCHANGED << searchVars, queryVars, sideVars >>

\* for table_name in all_tables: if len(found_results) >= max_tables: break
PairLoopHead(i) ==
    /\ invocations[i].pc = "loop"
    /\ LET l == invocations[i] IN
       invocations' =
          [invocations EXCEPT ![i] =
              [l EXCEPT !.pc =
                  IF \/ l.idx > Len(l.all_tables)
                     \/ BudgetReached(Len(lists[l.ref]), l.max_tables)
                  THEN "return" ELSE "columns"]]
    /\ UNCHANGED << lists, searchVars, queryVars, sideVars >>

\* insp.get_columns(table_name), the string columns, the WHERE clause
PairGetColumns(i) ==
    /\ invocations[i].pc = "columns"
    /\ LET l == invocations[i]
           t == TableOf(l.all_tables[l.idx])
           cols == StringCols(t.columns)
       IN
       invocations' =
          [invocations EXCEPT ![i] =
              IF t.fault = "columns" \/ cols = <<>>
              THEN NextTable(l)
              ELSE [l EXCEPT !.pc = "sample",
                             !.string_cols = cols,
                             !.where_clause = TermConditions(l.search_terms, cols)]]
    /\ UNCHANGED << lists, searchVars, queryVars, sideVars >>

\* the sample statement
PairSampleQuery(i) ==
    /\ invocations[i].pc = "sample"
    /\ LET l == invocations[i]
           t == TableOf(l.all_tables[l.idx])
       IN
       invocations' =
          [invocations EXCEPT ![i] =
              IF t.fault = "sample" \/ Malformed(l.where_clause)
              THEN NextTable(l)
              ELSE LET top == SampleRows(t, l.where_clause) IN
                   IF HasRows(top)
                   THEN [l EXCEPT !.pc = "count", !.rows = top]
                   ELSE NextTable(l)]
    /\ UNCHANGED << lists, searchVars, queryVars, sideVars >>

\* the count statement; found_results.append(...)
PairCountQuery(i) ==
    /\ invocations[i].pc = "count"
    /\ LET l == invocations[i]
           t == TableOf(l.all_tables[l.idx])
       IN
       /\ invocations' = [invocations EXCEPT ![i] = NextTable(l)]
       /\ IF t.fault = "count"
          THEN UNCHANGED lists
          ELSE lists' =
                  [lists EXCEPT ![l.ref] =
                      AppendResult(lists[l.ref],
                                   TableMatch(t.name, CountRows(t, l.where_clause),
                                              ColNames(t.columns), l.rows))]
    /\ UNCHANGED << searchVars, queryVars, sideVars >>

\* return found_results
PairReturn(i) ==
    /\ invocations[i].pc = "return"
    /\ LET l == invocations[i] IN
       invocations' =
          [invocations EXCEPT ![i] = [l EXCEPT !.pc = "done", !.value = lists[l.ref]]]
    /\ UNCHANGED << lists, searchVars, queryVars, sideVars >>

\* two calls, each with its own phrase, and the store they both search
InitPair ==
    /\ store \in { Store(c, lf) : c \in [1..NumTables -> PairKinds], lf \in BOOLEAN }
    /\ phrase = <<>>
    /\ max_tables = 0
    /\ SearchIdle
    /\ QueryIdle
    /\ invocations \in
          { [i \in Invocations |-> NewInvocation(ph[i], b)] :
               ph \in [Invocations -> FewPhrases], b \in 0..MaxBudget }
    /\ lists = [r \in Invocations |-> <<>>]
    /\ SideIdle

NextPair ==
    \E i \in Invocations :
        \/ PairCall(i)
        \/ PairLoopHead(i)
        \/ PairGetColumns(i)
        \/ PairSampleQuery(i)
        \/ PairCountQuery(i)
        \/ PairReturn(i)

SpecPair == InitPair /\ [][NextPair]_vars

(***************************************************************************)
(* The two scripts.  Each is a program of its own: it lists the catalog    *)
(* and then, table by table, looks the columns up, sends the sample        *)
(* statement and, when rows came back, the count statement on the same     *)
(* connection.  Each of these is a round trip to the database the script   *)
(* waits for, so each is a step of its own.                                *)
(***************************************************************************)
\* search_person.py, lines 18-28: the argument, its terms, the catalog
PersonStart ==
    /\ person.pc = "start"
    /\ IF store.listFault
       THEN /\ person' = [person EXCEPT !.pc = "done", !.search_terms = Split(phrase)]
            /\ person_results' = [status |-> "raised", value |-> <<>>]
       ELSE LET q == ScriptContinue([person EXCEPT !.search_terms = Split(phrase),
                                                   !.all_tables = NamesOfStore])
            IN  /\ person' = q
                /\ person_results' = [status |-> ScriptStatus(q), value |-> <<>>]
    /\ UNCHANGED << searchVars, queryVars, pairVars, linda, linda_results, askVars,
                    healthVars >>

\* search_person.py, lines 32-51: the columns, the string columns, the predicate
PersonGetColumns ==
    /\ person.pc = "columns"
    /\ LET t == TableOf(person.all_tables[person.idx])
           cols == PersonStringCols(t.columns)
           q == IF t.fault = "columns" \/ cols = <<>>
                THEN ScriptContinue(person)
                ELSE [person EXCEPT !.pc = "sample",
                                    !.string_cols = cols,
                                    !.where_clause = PersonWhere(person.search_terms, cols)]
       IN  /\ person' = q
           /\ person_results' = [person_results EXCEPT !.status = ScriptStatus(q)]
    /\ UNCHANGED << searchVars, queryVars, pairVars, linda, linda_results, askVars,
                    healthVars >>

\* search_person.py, lines 53-57: the sample statement and its rows
PersonSampleQuery ==
    /\ person.pc = "sample"
    /\ LET t == TableOf(person.all_tables[person.idx])
           faults == t.fault = "sample" \/ Malformed(person.where_clause)
           fetched == PersonSample(t, person.where_clause)
           q == IF faults \/ fetched = <<>>
                THEN ScriptContinue(person)
                ELSE [person EXCEPT !.pc = "count", !.rows = fetched]
       IN  /\ person' = q
           /\ person_results' = [person_results EXCEPT !.status = ScriptStatus(q)]
    /\ UNCHANGED << searchVars, queryVars, pairVars, linda, linda_results, askVars,
                    healthVars >>

\* search_person.py, lines 58-73: the count statement and the entry appended
PersonCountQuery ==
    /\ person.pc = "count"
    /\ LET t == TableOf(person.all_tables[person.idx])
           q == ScriptContinue(person)
       IN  /\ person' = q
           /\ person_results' =
                 [status |-> ScriptStatus(q),
                  value  |-> IF t.fault = "count" THEN person_results.value
                             ELSE Append(person_results.value,
                                         PersonMatch(t, PersonCount(t, person.where_clause),
                                                     person.rows))]
    /\ UNCHANGED << searchVars, queryVars, pairVars, linda, linda_results, askVars,
                    healthVars >>

\* search_linda.py, lines 12-23: the catalog and the two empty collections
LindaStart ==
    /\ linda.pc = "start"
    /\ IF store.listFault
       THEN /\ linda' = [linda EXCEPT !.pc = "done"]
            /\ linda_results' = [status |-> "raised", value |-> <<>>]
       ELSE LET q == ScriptContinue([linda EXCEPT !.all_tables = NamesOfStore])
            IN  /\ linda' = q
                /\ linda_results' = [status |-> ScriptStatus(q),
                                     value  |-> [summary |-> <<>>, detailed |-> <<>>]]
    /\ UNCHANGED << searchVars, queryVars, pairVars, person, person_results, askVars,
                    healthVars >>

\* search_linda.py, lines 29-46: the columns, the string columns, the predicate
LindaGetColumns ==
    /\ linda.pc = "columns"
    /\ LET t == TableOf(linda.all_tables[linda.idx])
           cols == LindaStringCols(t.columns)
           q == IF t.fault = "columns" \/ cols = <<>>
                THEN ScriptContinue(linda)
                ELSE [linda EXCEPT !.pc = "sample",
                                   !.string_cols = cols,
                                   !.where_clause = LindaWhere(cols)]
       IN  /\ linda' = q
           /\ linda_results' = [linda_results EXCEPT !.status = ScriptStatus(q)]
    /\ UNCHANGED << searchVars, queryVars, pairVars, person, person_results, askVars,
                    healthVars >>

\* search_linda.py, lines 48-52: the sample statement and its rows
LindaSampleQuery ==
    /\ linda.pc = "sample"
    /\ LET t == TableOf(linda.all_tables[linda.idx])
           fetched == LindaSample(t, linda.where_clause)
           q == IF t.fault = "sample" \/ fetched = <<>>
                THEN ScriptContinue(linda)
                ELSE [linda EXCEPT !.pc = "count", !.rows = fetched]
       IN  /\ linda' = q
           /\ linda_results' = [linda_results EXCEPT !.status = ScriptStatus(q)]
    /\ UNCHANGED << searchVars, queryVars, pairVars, person, person_results, askVars,
                    healthVars >>

\* search_linda.py, lines 53-73: the count statement and the two entries stored
LindaCountQuery ==
    /\ linda.pc = "count"
    /\ LET t == TableOf(linda.all_tables[linda.idx])
           q == ScriptContinue(linda)
           found == linda_results.value
       IN  /\ linda' = q
           /\ linda_results' =
                 [status |-> ScriptStatus(q),
                  value  |-> IF t.fault = "count" THEN found
                             ELSE [summary  |-> Append(found.summary,
                                                       LindaSummary(t,
                                                           LindaCount(t, linda.where_clause),
                                                           linda.string_cols)),
                                   detailed |-> Append(found.detailed,
                                                       LindaDetail(t, linda.rows))]]
    /\ UNCHANGED << searchVars, queryVars, pairVars, person, person_results, askVars,
                    healthVars >>

\* phrases of one term, of two terms and of no term
ScriptPhrases == FewPhrases \cup { <<>>, <<" ">> }

\* no program calls search_all_tables
SearchOff ==
    /\ pc = "off"
    /\ SearchCleared

\* search_person.py is run with the phrase a caller gives to search_all_tables,
\* on the same store; or search_linda.py is run
InitScripts ==
    /\ store \in { Store(c, lf) : c \in ScriptContents, lf \in BOOLEAN }
    /\ \/ /\ phrase \in ScriptPhrases
          /\ max_tables \in 0..MaxBudget
          /\ SearchIdle
          /\ person = ScriptStart
          /\ linda = ScriptOff
       \/ /\ phrase = <<>>
          /\ max_tables = 0
          /\ SearchOff
          /\ person = ScriptOff
          /\ linda = ScriptStart
    /\ person_results = NoRun
    /\ linda_results = NoRun
    /\ QueryIdle
    /\ PairIdle
    /\ AskIdle
    /\ HealthIdle

NextScripts ==
    \/ Call
    \/ LoopHead
    \/ GetColumns
    \/ SampleQuery
    \/ CountQuery
    \/ Return
    \/ Combine
    \/ Introduce
    \/ PersonStart
    \/ PersonGetColumns
    \/ PersonSampleQuery
    \/ PersonCountQuery
    \/ LindaStart
    \/ LindaGetColumns
    \/ LindaSampleQuery
    \/ LindaCountQuery

SpecScripts == InitScripts /\ [][NextScripts]_vars

(***************************************************************************)
(* Another client of the database writes to a table while a scan runs: the *)
(* statements of a scan, of search_all_tables and of either script, are    *)
(* sent on a connection in autocommit mode, so each of them sees the rows  *)
(* committed when it executes.  The writes modelled are those made while   *)
(* the connection of a scan is open, after its sample statement; a write   *)
(* at another moment is a scan of another store.                           *)
(***************************************************************************)
\* the store after table i got the rows `new`
WithRows(i, new) == [store EXCEPT !.tables[i].rows = new]

\* a scan has sent its sample statement and not yet its count statement
BetweenStatements == conn # 0 \/ person.pc = "count" \/ linda.pc = "count"

\* the rows another client inserts
WriterRows == RowPool \cup {LindaFirst}

\* INSERT INTO <table i> VALUES row, committed
WriterInsert ==
    /\ BetweenStatements
    /\ \E i \in 1..Len(store.tables) : \E row \in WriterRows :
          /\ store.tables[i].columns = ContactColumns
          /\ Len(store.tables[i].rows) < MaxStoreRows
          /\ store' = WithRows(i, Append(store.tables[i].rows, row))
    /\ UNCHANGED << phrase, max_tables, pc, search_terms, all_tables, idx,
                    found_results, string_cols, where_clause, rows, ops, errors,
                    returned, combined, conn, open_conns, queries, introduction >>
    /\ UNCHANGED << queryVars, pairVars, sideVars >>

\* DELETE FROM <table i> of its r-th row, committed
WriterDelete ==
    /\ BetweenStatements
    /\ \E i \in 1..Len(store.tables) : \E r \in 1..Len(store.tables[i].rows) :
          store' = WithRows(i, SubSeq(store.tables[i].rows, 1, r - 1)
                               \o SubSeq(store.tables[i].rows, r + 1,
                                         Len(store.tables[i].rows)))
    /\ UNCHANGED << phrase, max_tables, pc, search_terms, all_tables, idx,
                    found_results, string_cols, where_clause, rows, ops, errors,
                    returned, combined, conn, open_conns, queries, introduction >>
    /\ UNCHANGED << queryVars, pairVars, sideVars >>

\* the table contents of the one-table stores search_linda.py is run on
LindaTables ==
    { Table(ContactColumns, <<LindaFirst>>, "none"),
      Table(ContactColumns, <<LindaFirst, LindaLast>>, "none"),
      Table(ContactColumns, <<RowBoth>>, "none") }

\* one scan runs while another client writes: a call of search_all_tables,
\* search_person.py, or search_linda.py
InitWriter ==
    /\ \/ /\ store \in { Store(<<t>>, FALSE) : t \in SingleTables }
          /\ phrase \in FewPhrases
          /\ SearchIdle
          /\ person = ScriptOff
          /\ linda = ScriptOff
       \/ /\ store \in { Store(<<t>>, FALSE) : t \in SingleTables \cup LindaTables }
          /\ phrase \in FewPhrases
          /\ SearchOff
          /\ person = ScriptStart
          /\ linda = ScriptOff
       \/ /\ store \in { Store(<<t>>, FALSE) : t \in LindaTables }
          /\ phrase = <<>>
          /\ SearchOff
          /\ person = ScriptOff
          /\ linda = ScriptStart
    /\ max_tables = DefaultMaxTables
    /\ person_results = NoRun
    /\ linda_results = NoRun
    /\ QueryIdle
    /\ PairIdle
    /\ AskIdle
    /\ HealthIdle

NextWriter ==
    \/ Call
    \/ LoopHead
    \/ GetColumns
    \/ SampleQuery
    \/ CountQuery
    \/ Return
    \/ Combine
    \/ Introduce
    \/ PersonStart
    \/ PersonGetColumns
    \/ PersonSampleQuery
    \/ PersonCountQuery
    \/ LindaStart
    \/ LindaGetColumns
    \/ LindaSampleQuery
    \/ LindaCountQuery
    \/ WriterInsert
    \/ WriterDelete

SpecWriter == InitWriter /\ [][NextWriter]_vars

(***************************************************************************)
(* query_and_introduce(question): the search term it takes from the        *)
(* question, the steps of search_all_tables, combine_results and           *)
(* introduce_person above, and what it returns.                            *)
(***************************************************************************)
\* lines 234-240, up to the call of search_all_tables
AskStart ==
    /\ pc = "ask"
    /\ LET t == SearchTerm(question) IN
       IF t.raised
       THEN /\ answer' = Raised
            /\ pc' = "done"
            /\ UNCHANGED << phrase, max_tables >>
       ELSE /\ answer' = [NoAnswer EXCEPT !.status = "asked"]
            /\ phrase' = t.term
            /\ max_tables' = AskMaxTables
            /\ pc' = "idle"
    /\ UNCHANGED << store, search_terms, all_tables, idx, found_results, string_cols,
                    where_clause, rows, ops, errors, returned, combined, conn,
                    open_conns, queries, introduction >>
    /\ UNCHANGED << queryVars, pairVars, scriptVars, healthVars, question, chat_fault >>

\* the way out of query_and_introduce: the exception of search_all_tables or
\* of introduce_person (ollama.chat, PersonIntroduction), lines 242-244, or
\* lines 271-287
AskEnd ==
    /\ pc = "idle"
    /\ answer.status = "asked"
    /\ returned # <<>>
    /\ LET table_results == returned[Len(returned)] IN
       answer' =
          IF table_results.status = "raised" THEN Raised
          ELSE IF table_results.value = <<>> THEN Nothing
          ELSE IF introduction.status = "raised" THEN Raised
          ELSE [status          |-> "triple",
                tables_to_query |-> combined.tables,
                all_records     |-> combined.records,
                introduction    |-> introduction]
    /\ pc' = "done"
    /\ UNCHANGED << store, phrase, max_tables, search_terms, all_tables, idx,
                    found_results, string_cols, where_clause, rows, ops, errors,
                    returned, combined, conn, open_conns, queries, introduction >>
    /\ UNCHANGED << queryVars, pairVars, scriptVars, healthVars, question, chat_fault >>

InitAsk ==
    /\ store \in { Store(<<t>>, lf) : t \in AskTables, lf \in BOOLEAN }
    /\ question \in Questions
    /\ chat_fault \in BOOLEAN
    /\ answer = NoAnswer
    /\ phrase = <<>>
    /\ max_tables = 0
    /\ pc = "ask"
    /\ SearchCleared
    /\ QueryIdle
    /\ PairIdle
    /\ ScriptIdle
    /\ HealthIdle

NextAsk ==
    \/ AskStart
    \/ Call
    \/ LoopHead
    \/ GetColumns
    \/ SampleQuery
    \/ CountQuery
    \/ Return
    \/ Combine
    \/ Introduce
    \/ AskEnd

SpecAsk == InitAsk /\ [][NextAsk]_vars

(***************************************************************************)
(* GET /health: the steps of health_check.                                 *)
(***************************************************************************)
\* a request arrives: status = {...}
HealthStart ==
    /\ hpc = "idle"
    /\ Len(checks) < MaxChecks
    /\ status' = FreshStatus
    /\ probes' = <<>>
    /\ hpc' = "sql"
    /\ \E sql \in SqlOutcomes, reply \in OllamaReplies :
          health_env' = [sql |-> sql, ollama |-> reply]
    /\ UNCHANGED << checks, searchVars, queryVars, pairVars, scriptVars, askVars >>

\* the try block of the SQL Server probe and its except clause
ProbeSql ==
    /\ hpc = "sql"
    /\ probes' = Append(probes, "sql_server")
    /\ status' = SqlProbe(status, health_env.sql)
    /\ hpc' = "ollama"
    /\ UNCHANGED << health_env, checks, searchVars, queryVars, pairVars, scriptVars,
                    askVars >>

\* the try block of the Ollama probe and its except clause
ProbeOllama ==
    /\ hpc = "ollama"
    /\ probes' = Append(probes, "ollama")
    /\ status' = OllamaProbe(status, health_env.ollama)
    /\ hpc' = "verdict"
    /\ UNCHANGED << health_env, checks, searchVars, queryVars, pairVars, scriptVars,
                    askVars >>

\* if not status["sql_server"] or not status["ollama"]: ...; return status
HealthReturn ==
    /\ hpc = "verdict"
    /\ LET final == IF Degraded(status) THEN SetKey(status, "status", "degraded")
                    ELSE status
       IN  /\ status' = final
           /\ checks' = Append(checks, final)
    /\ hpc' = "idle"
    /\ UNCHANGED << health_env, probes, searchVars, queryVars, pairVars, scriptVars,
                    askVars >>

InitHealth ==
    /\ health_env = NoHealthEnv
    /\ hpc = "idle"
    /\ status = NoStatus
    /\ probes = <<>>
    /\ checks = <<>>
    /\ store = Store(<<>>, FALSE)
    /\ phrase = <<>>
    /\ max_tables = 0
    /\ SearchIdle
    /\ QueryIdle
    /\ PairIdle
    /\ ScriptIdle
    /\ AskIdle

NextHealth ==
    \/ HealthStart
    \/ ProbeSql
    \/ ProbeOllama
    \/ HealthReturn

SpecHealth == InitHealth /\ [][NextHealth]_vars

(***************************************************************************)
(* Reference notions the properties are stated with.  They describe the    *)
(* store and the expected outcome declaratively, not by the loop.          *)
(***************************************************************************)
\* `text` contains `term`, letter case ignored, every character taken literally
ContainsCI(term, text) == IsSubstring(Upper(term), Upper(text))

\* the outcome of the last finished call
LastReturned == returned[Len(returned)]

\* the last call has returned a list and the caller has combined it
Finished == pc = "idle" /\ returned # <<>> /\ LastReturned.status = "ok"

\* the names of the entries of a result list, in order
TablesIn(results) == [m \in 1..Len(results) |-> results[m].table]

\* the names of a sequence of tables of the store
NamesOf(tables) == [i \in 1..Len(tables) |-> tables[i].name]

\* the statement sent for table t
WhereOf(t, terms) == TermConditions(terms, StringCols(t.columns))

\* table t is searchable, answers without fault and holds a row the statement selects
Produces(t, terms) ==
    /\ t.fault = "none"
    /\ terms # <<>>
    /\ StringCols(t.columns) # <<>>
    /\ \E r \in 1..Len(t.rows) : EvalWhere(WhereOf(t, terms), t.columns, t.rows[r])

\* the tables that produce an entry, in catalog order
Producing(tables, terms) == SelectSeq(tables, LAMBDA t : Produces(t, terms))

\* the entry expected for a producing table
ExpectedMatch(t, terms) ==
    TableMatch(t.name, CountRows(t, WhereOf(t, terms)), ColNames(t.columns),
               SampleRows(t, WhereOf(t, terms)))

\* the list expected of a search of `tables` with budget b
Expected(tables, terms, b) ==
    LET p == Producing(tables, terms)
    IN  [k \in 1..Min(b, Len(p)) |-> ExpectedMatch(p[k], terms)]

\* position of the table named `name` in the catalog
Position(name) == CHOOSE i \in 1..Len(store.tables) : store.tables[i].name = name

\* the names of the columns of table `name` whose type has a string marker
StringColumnNames(name) ==
    LET cs == TableOf(name).columns
    IN  {cs[j].name : j \in {j \in 1..Len(cs) : IsStringType(cs[j].type)}}

\* every record of `results` holds every term, literally, in one of its columns
\* (stringOnly: in one of the string columns of its table)
RecordsHoldTerms(results, terms, stringOnly) ==
    \A m \in 1..Len(results) :
        \A k \in 1..Len(results[m].records) :
            \A i \in 1..Len(terms) :
                \E c \in (IF stringOnly
                          THEN StringColumnNames(results[m].table)
                          ELSE {results[m].columns[j] : j \in 1..Len(results[m].columns)}) :
                    /\ results[m].records[k][c].kind # "null"
                    /\ ContainsCI(terms[i], results[m].records[k][c].text)

(***************************************************************************)
(* Properties.                                                             *)
(***************************************************************************)

\* C1: for a phrase of at least one term, every record of every returned entry
\* holds, for every term, a column whose value contains the term (case ignored).
C1_RecordsContainEveryTerm ==
    \A n \in 1..Len(returned) :
        (returned[n].status = "ok" /\ Len(search_terms) >= 1)
            => RecordsHoldTerms(returned[n].value, search_terms, FALSE)

\* C2: a returned list is never longer than max_tables; with max_tables = 0 it
\* is empty and the call makes no access to any table.
C2_BudgetBoundsResult ==
    /\ \A n \in 1..Len(returned) :
          returned[n].status = "ok" => Len(returned[n].value) <= max_tables
    /\ max_tables = 0 =>
          /\ ops = <<>>
          /\ found_results = <<>>
          /\ \A n \in 1..Len(returned) : returned[n].value = <<>>

C2_Witness ==
    /\ Finished
    /\ max_tables = 0
    /\ Len(Producing(store.tables, search_terms)) >= 2

\* C3: with budget b the returned tables are the first min(b, m) of the m
\* producing tables, in catalog order.
C3_FirstFoundPrefix ==
    Finished =>
        LET p == NamesOf(Producing(store.tables, search_terms))
        IN  TablesIn(LastReturned.value) = SubSeq(p, 1, Min(max_tables, Len(p)))

\* budget 1, the second producing table has more matching rows than the first
C3_Witness ==
    /\ Finished
    /\ max_tables = 1
    /\ LET p == Producing(store.tables, search_terms) IN
          /\ Len(p) >= 2
          /\ CountRows(p[2], WhereOf(p[2], search_terms))
                > CountRows(p[1], WhereOf(p[1], search_terms))
          /\ TablesIn(LastReturned.value) = << p[1].name >>

\* C4: a table whose scan raised is in no entry, the call ends by returning a
\* list, and that list is the one expected of the store without the table.
C4_ScanErrorIsolated ==
    \A j \in 1..Len(errors) :
        /\ \A m \in 1..Len(found_results) : found_results[m].table # errors[j]
        /\ pc \in {"idle", "combine"} =>
              /\ LastReturned.status = "ok"
              /\ LastReturned.value =
                    Expected(SelectSeq(store.tables, LAMBDA t : t.name # errors[j]),
                             search_terms, max_tables)

\* a scan raised, and a table enumerated after it is in the returned list
C4_Witness ==
    /\ Finished
    /\ \E j \in 1..Len(errors) :
          \E m \in 1..Len(LastReturned.value) :
              Position(errors[j]) < Position(LastReturned.value[m].table)

\* C5: a table without a column of string-marker type is in no entry and gets
\* no query: the only access to it is the column lookup.
C5_NoStringTableSkipped ==
    Finished =>
        \A i \in 1..Len(store.tables) :
            LET t == store.tables[i] IN
            (\A j \in 1..Len(t.columns) : ~IsStringType(t.columns[j].type)) =>
                /\ \A m \in 1..Len(LastReturned.value) :
                      LastReturned.value[m].table # t.name
                /\ \A k \in 1..Len(ops) : ops[k].table = t.name => ops[k].op = "columns"

\* a table without string columns was looked up; one of its values holds a term
C5_Witness ==
    /\ Finished
    /\ \E i \in 1..Len(store.tables) :
          LET t == store.tables[i] IN
          /\ \A j \in 1..Len(t.columns) : ~IsStringType(t.columns[j].type)
          /\ \E k \in 1..Len(ops) : ops[k] = [table |-> t.name, op |-> "columns"]
          /\ \E r \in 1..Len(t.rows) : \E j \in 1..Len(t.columns) :
                \E x \in 1..Len(search_terms) :
                    ContainsCI(search_terms[x], t.rows[r][j].text)

\* C6: the calls made one after the other with the same phrase and budget
\* against the unchanged store all have the same outcome.
C6_RepeatedCallSameResult ==
    \A k \in 1..Len(returned) : \A l \in 1..Len(returned) : returned[k] = returned[l]

C6_Witness ==
    /\ Len(returned) >= 2
    /\ returned[1].status = "ok"
    /\ returned[1].value # <<>>
    /\ pc = "idle"

\* C7: for a phrase of several terms, every record of every entry holds every
\* term, literally, in one of the table's string columns (so a row that lacks a
\* term in all its string columns is in no entry).
C7_EveryTermInAStringColumn ==
    Len(search_terms) >= 2 =>
        RecordsHoldTerms(found_results, search_terms, TRUE)

\* C8 as stated: every table holding a matching row has exactly one entry in
\* the returned list, with count the number of matching rows and the matching
\* rows sampled, and every record of every entry carries _source_table.
C8_EntryCountedAndTagged ==
    Finished =>
        /\ \A i \in 1..Len(store.tables) :
              LET t == store.tables[i]
                  w == WhereOf(t, search_terms)
              IN  (/\ StringCols(t.columns) # <<>>
                   /\ search_terms # <<>>
                   /\ \E r \in 1..Len(t.rows) : EvalWhere(w, t.columns, t.rows[r]))
                  => \E m \in 1..Len(LastReturned.value) :
                        /\ LastReturned.value[m].table = t.name
                        /\ LastReturned.value[m].count =
                              Cardinality({r \in 1..Len(t.rows) :
                                              EvalWhere(w, t.columns, t.rows[r])})
        /\ \A m \in 1..Len(LastReturned.value) :
              \A k \in 1..Len(LastReturned.value[m].records) :
                  LET rec == LastReturned.value[m].records[k]
                  IN  /\ "_source_table" \in DOMAIN rec
                      /\ rec["_source_table"] = LastReturned.value[m].table

\* the k-th record of the m-th entry of `results` within the combined list
Offset(results, m) ==
    LET upto[q \in 0..Len(results)] ==
            IF q = 0 THEN 0 ELSE upto[q - 1] + Len(results[q].records)
    IN  upto[m - 1]

\* C8 as amended: a table that holds a matching row, answers without fault and
\* has fewer than max_tables producing tables before it has exactly one entry in
\* the returned list; its count is the number of matching rows and its records
\* are the first min(10, count) matching rows, in order.  The records of the
\* returned entries carry no _source_table; the list combine_results hands to
\* the caller holds, entry by entry and record by record, a copy of each record
\* that carries _source_table equal to its table's name.
C8_EntryCountedCopiesTagged ==
    Finished =>
        LET res == LastReturned.value IN
        /\ \A i \in 1..Len(store.tables) :
              LET t == store.tables[i]
                  w == WhereOf(t, search_terms)
                  hits == {r \in 1..Len(t.rows) : EvalWhere(w, t.columns, t.rows[r])}
              IN  (/\ Produces(t, search_terms)
                   /\ Cardinality({j \in 1..(i - 1) :
                          Produces(store.tables[j], search_terms)}) < max_tables)
                  => /\ Cardinality({m \in 1..Len(res) : res[m].table = t.name}) = 1
                     /\ \A m \in 1..Len(res) : res[m].table = t.name =>
                           /\ res[m].count = Cardinality(hits)
                           /\ Len(res[m].records) = Min(SampleLimit, Cardinality(hits))
                           /\ \A k \in 1..Len(res[m].records) :
                                 \E r \in hits :
                                    /\ Cardinality({q \in hits : q < r}) = k - 1
                                    /\ \A j \in 1..Len(t.columns) :
                                          res[m].records[k][t.columns[j].name] = t.rows[r][j]
        /\ \A m \in 1..Len(res) : \A k \in 1..Len(res[m].records) :
              "_source_table" \notin DOMAIN res[m].records[k]
        /\ Len(combined.records) = Offset(res, Len(res) + 1)
        /\ \A m \in 1..Len(res) : \A k \in 1..Len(res[m].records) :
              LET copy == combined.records[Offset(res, m) + k]
              IN  /\ DOMAIN copy = (DOMAIN res[m].records[k]) \cup {"_source_table"}
                  /\ copy["_source_table"] = res[m].table
                  /\ \A c \in DOMAIN res[m].records[k] : copy[c] = res[m].records[k][c]

\* two entries returned and combined; one table has two matching rows and a
\* row that does not match
C8_Witness ==
    /\ Finished
    /\ Len(LastReturned.value) >= 2
    /\ \E m \in 1..Len(LastReturned.value) :
          /\ LastReturned.value[m].count = 2
          /\ Len(TableOf(LastReturned.value[m].table).rows) > 2
    /\ Len(combined.records) >= 3

\* C9: an access to a table is made only while fewer than max_tables entries
\* have been collected: the entries of tables enumerated before an accessed
\* table number less than max_tables.
C9_NoAccessAfterBudget ==
    \A k \in 1..Len(ops) :
        Cardinality({m \in 1..Len(found_results) :
                        Position(found_results[m].table) < Position(ops[k].table)})
            < max_tables

\* the budget is full and a producing table, left unscanned, follows
C9_Witness ==
    /\ Finished
    /\ max_tables >= 1
    /\ Len(LastReturned.value) = max_tables
    /\ Len(Producing(store.tables, search_terms)) > max_tables
    /\ \E i \in 1..Len(store.tables) :
          \A k \in 1..Len(ops) : ops[k].table # store.tables[i].name

\* C10: no fault of the store reaches the caller: every call ends by returning
\* a list.
C10_NoFaultIsFatal ==
    \A n \in 1..Len(returned) : returned[n].status = "ok"

\* C11: when the catalog is listed and no table produces an entry (each one
\* has no matching row, raises, or is skipped), the call ends by returning the
\* empty list, never an exception or an error value; the outcome is this same
\* value whether or not a scan raised, so the caller cannot tell the cases apart.
C11_NothingFoundIsEmptyList ==
    (/\ pc = "idle"
     /\ returned # <<>>
     /\ ~store.listFault
     /\ Producing(store.tables, search_terms) = <<>>)
        => LastReturned = [status |-> "ok", value |-> <<>>]

\* every table of a store of several tables raised, at different statements
C11_Witness ==
    /\ Finished
    /\ Len(store.tables) >= 2
    /\ \A i \in 1..Len(store.tables) :
          \E j \in 1..Len(errors) : errors[j] = store.tables[i].name
    /\ \E i \in 1..Len(store.tables) : \E j \in 1..Len(store.tables) :
          store.tables[i].fault # store.tables[j].fault
    /\ LastReturned.value = <<>>
    /\ combined.records = <<>>

\* C12: for each scanned table the sample statement is executed first.  When
\* it fetches no row, the table gets no entry and no count statement.  When it
\* fetches a row, exactly one count statement follows it, with the same
\* predicate, for the same table and on the same connection, and the number it
\* yields is the count of the table's entry.
C12_SampleThenOneCount ==
    /\ \A k \in 1..Len(queries) :
          LET q == queries[k] IN
          /\ \A l \in 1..Len(queries) :
                (queries[l].table = q.table /\ queries[l].op = q.op) => l = k
          /\ q.op = "count" =>
                /\ k > 1
                /\ queries[k - 1].op = "sample"
                /\ ~queries[k - 1].raised
                /\ queries[k - 1].value >= 1
                /\ queries[k - 1].table = q.table
                /\ queries[k - 1].where = q.where
                /\ queries[k - 1].conn = q.conn
                /\ ~q.raised =>
                      \E m \in 1..Len(found_results) :
                          /\ found_results[m].table = q.table
                          /\ found_results[m].count = q.value
          /\ (q.op = "sample" /\ ~q.raised /\ q.value >= 1) =>
                IF k = Len(queries)
                THEN /\ pc = "count"
                     /\ all_tables[idx] = q.table
                     /\ \A m \in 1..Len(found_results) : found_results[m].table # q.table
                ELSE /\ queries[k + 1].op = "count"
                     /\ queries[k + 1].table = q.table
          /\ (q.op = "sample" /\ (q.raised \/ q.value = 0)) =>
                /\ \A m \in 1..Len(found_results) : found_results[m].table # q.table
                /\ \A l \in 1..Len(queries) : queries[l].table = q.table => l = k
    /\ \A m \in 1..Len(found_results) :
          \E k \in 1..Len(queries) :
              /\ queries[k].op = "count"
              /\ queries[k].table = found_results[m].table
              /\ queries[k].value = found_results[m].count

\* one table's sample fetched nothing and no count followed; another's fetched
\* two rows under a predicate of two terms and its count is in the entry
C12_Witness ==
    /\ Finished
    /\ Len(search_terms) = 2
    /\ \E k \in 1..Len(queries) :
          /\ queries[k].op = "sample"
          /\ ~queries[k].raised
          /\ queries[k].value = 0
    /\ \E k \in 1..Len(queries) :
          /\ queries[k].op = "count"
          /\ queries[k].value = 2
          /\ Len(queries[k].where) = 2
          /\ \E m \in 1..Len(LastReturned.value) :
                /\ LastReturned.value[m].table = queries[k].table
                /\ LastReturned.value[m].count = 2

\* C13: a table scan acquires one connection, which carries that table's
\* sample and count statements and nothing else, and releases it before the
\* next table is taken up, whether the scan ends normally or raises: at most
\* one connection is open at any point, and it is open only between a table's
\* sample and count statements, so none is open when the search returns.
C13_OneScopedConnection ==
    /\ Cardinality(open_conns) <= 1
    /\ pc # "count" => open_conns = {}
    /\ pc = "count" =>
          /\ open_conns = {conn}
          /\ queries # <<>>
          /\ queries[Len(queries)].conn = conn
          /\ queries[Len(queries)].table = all_tables[idx]
    /\ \A k \in 1..Len(queries) : \A l \in 1..Len(queries) :
          (queries[k].conn = queries[l].conn) <=> (queries[k].table = queries[l].table)

\* the count statement of one table raised while its connection was open, a
\* later table was scanned to the end on another connection, the search returned
C13_Witness ==
    /\ Finished
    /\ open_conns = {}
    /\ \E k \in 1..Len(queries) : \E l \in 1..Len(queries) :
          /\ k < l
          /\ queries[k].op = "count"
          /\ queries[k].raised
          /\ queries[l].op = "count"
          /\ ~queries[l].raised
          /\ queries[l].conn # queries[k].conn

\* the first record of the first entry of the last returned list
FirstRecord == LastReturned.value[1].records[1]

\* the text of a field, none for NULL
PlainText(v) == IF v.kind = "null" THEN <<>> ELSE v.text

\* the texts of the candidates that `record` has under `keys`, in the order of `keys`
Candidates(record, keys) ==
    LET present == SelectSeq(keys, LAMBDA k : k \in DOMAIN record)
    IN  [i \in 1..Len(present) |-> PlainText(record[present[i]])]

\* the candidates of the name, in priority order
NameCandidates(record) ==
    (IF "FirstName" \in DOMAIN record /\ "LastName" \in DOMAIN record
     THEN << Strip(PlainText(record["FirstName"]) \o <<" ">>
                   \o PlainText(record["LastName"])) >>
     ELSE <<>>)
    \o Candidates(record, <<"Contact", "Attention", "Name">>)

\* the first candidate that is not empty, the default when there is none
FirstNonEmpty(candidates, default) ==
    LET filled == SelectSeq(candidates, LAMBDA c : c # <<>>)
    IN  IF filled = <<>> THEN default ELSE filled[1]

\* C14: the name of the introduction is the first of the candidates
\* FirstName+LastName, Contact, Attention, Name that is present and not empty
\* in the first record; a candidate that is present but empty does not keep a
\* later candidate from being used.
C14_NameFirstNonEmptyCandidate ==
    introduction.status = "ok" =>
        introduction.name = FirstNonEmpty(NameCandidates(FirstRecord), Unknown)

\* C15: an attribute none of whose candidate fields holds a value that is
\* present and not empty has its default ("Unknown", "Not specified", "N/A");
\* a candidate present with NULL or an empty value yields the default, never a
\* null or empty attribute (and no failure to build the introduction).
C15_DefaultWhenNoCandidate ==
    introduction.status # "none" =>
        LET records == AllRecords(LastReturned.value)
            none(keys) == \A i \in 1..Len(records) :
                              FirstNonEmpty(Candidates(records[i], keys), <<>>) = <<>>
            info == introduction.contact_info
        IN
        /\ introduction.status = "ok"
        /\ introduction.name # <<>>
        /\ introduction.role_title # <<>>
        /\ FirstNonEmpty(NameCandidates(FirstRecord), <<>>) = <<>>
              => introduction.name = Unknown
        /\ FirstNonEmpty(Candidates(FirstRecord, <<"Position", "Title">>), <<>>) = <<>>
              => introduction.role_title = NotSpecified
        /\ none(<<"EmailAddress", "EMail_Address", "Email">>)
              => SubSeq(info, 1, 10) = <<"E","m","a","i","l",":"," ">> \o NotAvailable
        /\ none(<<"PhoneNumber", "Phone", "MobilePhone">>)
              => SubSeq(info, Len(info) - 9, Len(info))
                    = <<"P","h","o","n","e",":"," ">> \o NotAvailable

\* the names of the columns of table t whose declared type, letter case
\* ignored, holds CHAR or TEXT (every marker holds one of the two), in order
MarkedColumns(t) ==
    LET keep == SelectSeq(t.columns,
                          LAMBDA c : \/ ContainsCI(<<"C","H","A","R">>, c.type)
                                     \/ ContainsCI(<<"T","E","X","T">>, c.type))
    IN  [j \in 1..Len(keep) |-> keep[j].name]

\* C17: a column is a string column exactly when its declared type,
\* upper-cased, contains VARCHAR, NVARCHAR, TEXT or CHAR (so NCHAR and LONGTEXT
\* columns are, INTEGER and DATE columns are not); the predicate names exactly
\* these columns, and a table is queried exactly when it has one.
C17_StringColumnsByMarker ==
    /\ pc \in {"sample", "count"} =>
          LET marked == MarkedColumns(TableOf(all_tables[idx])) IN
          /\ string_cols = marked
          /\ marked # <<>>
          /\ \A k \in 1..Len(where_clause) :
                [j \in 1..Len(where_clause[k]) |-> where_clause[k][j].col] = marked
    /\ \A k \in 1..Len(ops) :
          (ops[k].op = "columns" /\ TableOf(ops[k].table).fault # "columns"
              /\ (k < Len(ops) \/ pc \notin {"columns"}))
          => (MarkedColumns(TableOf(ops[k].table)) # <<>>
                <=> (\/ \E l \in 1..Len(ops) :
                          ops[l] = [table |-> ops[k].table, op |-> "sample"]
                     \/ (k = Len(ops) /\ pc = "sample")))

\* a table with an NCHAR, a LONGTEXT, a VARCHAR, a DATE and an INTEGER column
\* has been queried with a predicate over the first three
C17_Witness ==
    /\ pc = "count"
    /\ LET t == TableOf(all_tables[idx])
           typeOf(name) == t.columns[ColumnIndex(t.columns, name)].type
       IN
          /\ Len(string_cols) = 3
          /\ {typeOf(string_cols[j]) : j \in 1..3} = {T_NCHAR, T_LONGTEXT, T_VARCHAR}
          /\ {t.columns[j].type : j \in 1..Len(t.columns)}
                = {T_NCHAR, T_LONGTEXT, T_VARCHAR, T_DATE, T_INTEGER}
          /\ Len(where_clause[1]) = 3

\* the positions of text p where a run of non-space characters starts
RunStarts(p) ==
    {i \in 1..Len(p) : ~IsSpace(p[i]) /\ (i = 1 \/ IsSpace(p[i - 1]))}

\* the last position of the run that starts at position i of p
RunEnd(p, i) ==
    CHOOSE j \in i..Len(p) :
        /\ \A x \in i..j : ~IsSpace(p[x])
        /\ j = Len(p) \/ IsSpace(p[j + 1])

\* the runs of non-space characters of p, as they stand in p, in order
Runs(p) ==
    LET starts == RunStarts(p)
        nth(k) == CHOOSE i \in starts : Cardinality({x \in starts : x < i}) = k - 1
    IN  [k \in 1..Cardinality(starts) |-> SubSeq(p, nth(k), RunEnd(p, nth(k)))]

\* C18: the terms of a call are the whitespace-separated pieces of the phrase,
\* in their order, unchanged (letter case and punctuation kept) and with
\* duplicates kept; the predicate of a scanned table has exactly one conjunct
\* per term occurrence, in that order, each over the pattern %term%.
C18_TermsVerbatimInOrder ==
    /\ (pc # "idle" \/ returned # <<>>) => search_terms = Runs(phrase)
    /\ pc \in {"sample", "count"} =>
          /\ Len(where_clause) = Len(Runs(phrase))
          /\ \A k \in 1..Len(where_clause) :
                /\ where_clause[k] # <<>>
                /\ \A j \in 1..Len(where_clause[k]) :
                      where_clause[k][j].pattern = <<"%">> \o Runs(phrase)[k] \o <<"%">>

\* the phrase "B B": two equal terms in upper case, a predicate of two equal
\* conjuncts, and rows fetched under it
C18_Witness ==
    /\ pc = "count"
    /\ phrase = <<"B", " ", "B">>
    /\ search_terms = << <<"B">>, <<"B">> >>
    /\ Len(where_clause) = 2
    /\ where_clause[1] = where_clause[2]
    /\ where_clause[1][1].pattern = <<"%", "B", "%">>

\* C19: within one call every table is taken up at most once: no access is
\* made twice, the accesses follow the catalog order without going back, a
\* table whose scan raised gets no access after the one that raised, and no
\* table has more than one entry.
C19_TableAttemptedOnce ==
    /\ \A k \in 1..Len(ops) : \A l \in 1..Len(ops) :
          /\ ops[k] = ops[l] => k = l
          /\ k < l => Position(ops[k].table) <= Position(ops[l].table)
    /\ \A j \in 1..Len(errors) :
          /\ \A i \in 1..Len(errors) : errors[i] = errors[j] => i = j
          /\ \E k \in 1..Len(ops) :
                /\ ops[k].table = errors[j]
                /\ \A l \in 1..Len(ops) : ops[l].table = errors[j] => l <= k
                /\ k < Len(ops) => ops[k + 1].table # errors[j]
    /\ pc \in {"columns", "sample", "count"} =>
          \A j \in 1..Len(errors) : all_tables[idx] # errors[j]
    /\ \A m \in 1..Len(found_results) : \A n \in 1..Len(found_results) :
          found_results[m].table = found_results[n].table => m = n

\* the first table raised at its count statement, the second was scanned to
\* the end and has its entry, and the search has returned
C19_Witness ==
    /\ Finished
    /\ Len(store.tables) >= 2
    /\ errors = << store.tables[1].name >>
    /\ store.tables[1].fault = "count"
    /\ Len(ops) = 6
    /\ TablesIn(LastReturned.value) = << store.tables[2].name >>

\* C16: the dict query_sql_noninteractive returns has the keys sql, reasoning
\* and tools_used, has results whenever execute is True, and has insights
\* whenever return_insights is True.
C16_DictHasDocumentedKeys ==
    outcome = "returned" =>
        /\ {"sql", "reasoning", "tools_used"} \subseteq DOMAIN result
        /\ request.execute => "results" \in DOMAIN result
        /\ request.return_insights => "insights" \in DOMAIN result

\* C20: two calls of search_all_tables share no mutable search state: when
\* they are interleaved step by step over an unchanged store, each ends as it
\* ends alone, returning the list expected of its phrase and budget (or raising
\* when the catalog cannot be listed), whatever the other call has done.
C20_InterleavedAsAlone ==
    \A i \in Invocations :
        LET l == invocations[i] IN
        /\ l.pc = "done" =>
              l.value = Expected(store.tables, Split(l.search_term), l.max_tables)
        /\ l.pc = "raised" => store.listFault
        /\ (l.pc \notin {"start", "raised"}) => ~store.listFault
        /\ \A j \in Invocations :
              (j # i /\ l.pc \notin {"start", "raised"}
                     /\ invocations[j].pc \notin {"start", "raised"})
                 => l.ref # invocations[j].ref

\* both calls have returned lists that are not empty and differ, and one
\* started while the other was in its loop
C20_Witness ==
    /\ \A i \in Invocations : invocations[i].pc = "done"
    /\ \E i \in Invocations : invocations[i].overlaps
    /\ invocations[1].value # <<>>
    /\ invocations[2].value # <<>>
    /\ invocations[1].value # invocations[2].value
    /\ Len(invocations[1].value) = 2

\* term read as a LIKE pattern occurs in text: ends[k] holds the positions of
\* text at which the first k characters of the term can end when the term
\* starts anywhere; % takes any stretch of text, _ any one character, another
\* character itself (letter case ignored)
OccursAsPattern(term, text) ==
    LET ends[k \in 0..Len(term)] ==
            IF k = 0 THEN 0..Len(text)
            ELSE IF term[k] = "%"
                 THEN {j \in 0..Len(text) : \E i \in ends[k - 1] : i <= j}
                 ELSE {j \in 1..Len(text) :
                          /\ (j - 1) \in ends[k - 1]
                          /\ term[k] = "_" \/ UpperChar(term[k]) = UpperChar(text[j])}
    IN  ends[Len(term)] # {}

\* the rows of table t in which every term, read as a pattern, occurs in a
\* value of a string column
PatternRows(t, terms) ==
    LET marked == MarkedColumns(t)
        searched == {j \in 1..Len(t.columns) :
                        \E q \in 1..Len(marked) : marked[q] = t.columns[j].name}
    IN  {r \in 1..Len(t.rows) :
            \A i \in 1..Len(terms) :
                \E j \in searched :
                    /\ t.rows[r][j].kind # "null"
                    /\ OccursAsPattern(terms[i], t.rows[r][j].text)}

\* a record of `results` and a term of `terms` that no value of the record
\* holds literally
SomeTermNotHeld(results, terms) ==
    \E m \in 1..Len(results) : \E k \in 1..Len(results[m].records) :
        \E i \in 1..Len(terms) :
            \A c \in DOMAIN results[m].records[k] :
                \/ results[m].records[k][c].kind = "null"
                \/ ~ContainsCI(terms[i], results[m].records[k][c].text)

\* C21: a term is spliced into the predicate unescaped, so its characters %
\* and _ act as wildcards: in a call that has returned, the sample statement
\* of a table fetched the first rows in which every term occurs as a pattern,
\* the count statement counted them, and every returned record is such a row,
\* whether or not it holds the term literally.
C21_TermIsPattern ==
    Finished =>
    /\ \A n \in 1..Len(queries) :
          LET q == queries[n]
              hits == PatternRows(TableOf(q.table), search_terms)
          IN  ~q.raised =>
                 q.value = IF q.op = "sample" THEN Min(SampleLimit, Cardinality(hits))
                           ELSE Cardinality(hits)
    /\ \A m \in 1..Len(found_results) :
          LET t == TableOf(found_results[m].table)
              hits == PatternRows(t, search_terms)
          IN  \A k \in 1..Len(found_results[m].records) :
                  \E r \in hits :
                      \A j \in 1..Len(t.columns) :
                          found_results[m].records[k][t.columns[j].name] = t.rows[r][j]

\* a search for a term holding _ has returned a record none of whose values
\* holds the term, and the count statement has counted such rows
C21_Witness ==
    /\ Finished
    /\ \E i \in 1..Len(search_terms) : \E k \in 1..Len(search_terms[i]) :
          search_terms[i][k] = "_"
    /\ SomeTermNotHeld(LastReturned.value, search_terms)
    /\ \E n \in 1..Len(queries) : queries[n].op = "count" /\ queries[n].value >= 2

\* C22: every entry of a result holds at least one and at most ten sampled
\* records in search_all_tables and in search_person.py, and at most five in
\* search_linda.py, however many rows of its table match.
C22_SampleWithinLimit ==
    /\ \A m \in 1..Len(found_results) :
          /\ Len(found_results[m].records) >= 1
          /\ Len(found_results[m].records) <= 10
    /\ \A n \in 1..Len(returned) : \A m \in 1..Len(returned[n].value) :
          /\ Len(returned[n].value[m].records) >= 1
          /\ Len(returned[n].value[m].records) <= 10
    /\ \A m \in 1..Len(person_results.value) :
          /\ Len(person_results.value[m].records) >= 1
          /\ Len(person_results.value[m].records) <= 10
    /\ linda_results.status \in {"running", "ok"} =>
          \A m \in 1..Len(linda_results.value.detailed) :
              /\ Len(linda_results.value.detailed[m].rows) >= 1
              /\ Len(linda_results.value.detailed[m].rows) <= 5

\* search_linda.py has ended on a store with a table of twelve matching rows,
\* of which it holds five, and a table of which it holds the one matching row
C22_Witness ==
    /\ linda_results.status = "ok"
    /\ \E m \in 1..Len(linda_results.value.summary) :
          /\ linda_results.value.summary[m].count = 12
          /\ Len(linda_results.value.detailed[m].rows) = 5
    /\ \E m \in 1..Len(linda_results.value.detailed) :
          Len(linda_results.value.detailed[m].rows) = 1

\* C23: in every entry of a result the count is at least the number of the
\* sampled records and at least one, also when another client inserts or
\* deletes rows between the sample statement and the count statement.
C23_CountCoversSample ==
    /\ \A m \in 1..Len(found_results) :
          /\ found_results[m].count >= Len(found_results[m].records)
          /\ found_results[m].count >= 1
    /\ \A n \in 1..Len(returned) : \A m \in 1..Len(returned[n].value) :
          /\ returned[n].value[m].count >= Len(returned[n].value[m].records)
          /\ returned[n].value[m].count >= 1
    /\ \A m \in 1..Len(person_results.value) :
          /\ person_results.value[m].count >= Len(person_results.value[m].records)
          /\ person_results.value[m].count >= 1
    /\ linda_results.status \in {"running", "ok"} =>
          \A m \in 1..Len(linda_results.value.summary) :
              /\ linda_results.value.summary[m].count
                    >= Len(linda_results.value.detailed[m].rows)
              /\ linda_results.value.summary[m].count >= 1

\* C24: a count statement that faults after a sample statement fetched rows
\* leaves no entry for its table, leaves the entries of the tables before it
\* as they are expected of those tables alone, and the loop goes on behind the
\* table; the call does not raise.
C24_CountFaultSkipsTable ==
    \A n \in 1..Len(queries) :
        (queries[n].op = "count" /\ queries[n].raised) =>
            LET at == Position(queries[n].table)
                before == {m \in 1..Len(found_results) :
                              Position(found_results[m].table) < at}
            IN  /\ n > 1
                /\ queries[n - 1].op = "sample"
                /\ queries[n - 1].table = queries[n].table
                /\ ~queries[n - 1].raised
                /\ queries[n - 1].value >= 1
                /\ \A m \in 1..Len(found_results) :
                      found_results[m].table # queries[n].table
                /\ before = 1..Cardinality(before)
                /\ SubSeq(found_results, 1, Cardinality(before))
                      = Expected(SubSeq(store.tables, 1, at - 1), search_terms, max_tables)
                /\ idx > at
                /\ pc \in {"loop", "columns", "sample", "count", "return", "combine",
                           "introduce"}
                      \/ (pc = "idle" /\ LastReturned.status = "ok")

\* the count statement of the first table has faulted and the call has
\* returned the entry of the second table alone
C24_Witness ==
    /\ Finished
    /\ \E n \in 1..Len(queries) :
          /\ queries[n].op = "count"
          /\ queries[n].raised
          /\ Position(queries[n].table) = 1
    /\ Len(LastReturned.value) = 1
    /\ Position(LastReturned.value[1].table) = 2

\* C25: the scan loop of search_person.py agrees with search_all_tables: run
\* on the same store with the same phrase, the script builds the list a call
\* with a budget of at least the number of tables returns (and dies where the
\* call raises); with a smaller budget the call returns the first max_tables
\* entries of the script's list.
C25_ScriptAgreesWithCall ==
    (pc = "idle" /\ returned # <<>> /\ person_results.status \in {"ok", "raised"}) =>
        /\ person_results.status = LastReturned.status
        /\ max_tables >= Len(store.tables) =>
              person_results.value = LastReturned.value
        /\ LastReturned.value =
              SubSeq(person_results.value, 1,
                     Min(max_tables, Len(person_results.value)))

\* both have built the same list: the entry of a table whose twelve matching
\* rows are sampled by ten, beside a table whose scan faulted
C25_Witness ==
    /\ Finished
    /\ person_results.status = "ok"
    /\ max_tables >= Len(store.tables)
    /\ person_results.value = LastReturned.value
    /\ \E m \in 1..Len(person_results.value) :
          /\ person_results.value[m].count = 12
          /\ Len(person_results.value[m].records) = 10
    /\ errors # <<>>

\* the number of records of the first m entries of `results`
RECURSIVE RecordsUpTo(_, _)
RecordsUpTo(results, m) ==
    IF m = 0 THEN 0 ELSE RecordsUpTo(results, m - 1) + Len(results[m].records)

\* C26: combine_results leaves the list it is given as search_all_tables
\* built it (no record of it has the key _source_table) and returns the table
\* names in the order of the entries together with one tagged copy per record,
\* entry by entry and record by record: as many records as the entries hold
\* together, equal records kept apart.
C26_CombineCopiesInOrder ==
    Finished =>
        LET res == LastReturned.value IN
        /\ res = found_results
        /\ \A m \in 1..Len(res) : \A k \in 1..Len(res[m].records) :
              "_source_table" \notin DOMAIN res[m].records[k]
        /\ combined.tables = [m \in 1..Len(res) |-> res[m].table]
        /\ Len(combined.records) = RecordsUpTo(res, Len(res))
        /\ \A m \in 1..Len(res) : \A k \in 1..Len(res[m].records) :
              LET copy == combined.records[RecordsUpTo(res, m - 1) + k]
                  rec == res[m].records[k]
              IN  /\ DOMAIN copy = (DOMAIN rec) \cup {"_source_table"}
                  /\ copy["_source_table"] = res[m].table
                  /\ \A c \in DOMAIN rec : copy[c] = rec[c]

\* ten records of one table combined, equal ones among them
C26_Witness ==
    /\ Finished
    /\ Len(combined.records) = 10
    /\ \E i \in 1..10 : \E j \in 1..10 : i < j /\ combined.records[i] = combined.records[j]
    /\ combined.tables = << LastReturned.value[1].table >>

\* C27: query_and_introduce searches with exactly one term, the last
\* whitespace-delimited token of a question that holds a space and else the
\* whole question, so that no predicate of the search has more than one
\* conjunct.
C27_OneTermLastToken ==
    answer.status # "none" =>
        /\ pc # "ask"
        /\ answer.status # "raised" \/ returned # <<>>
        /\ Len(Runs(phrase)) = 1
        /\ IF \E i \in 1..Len(question) : question[i] = " "
           THEN phrase = Runs(question)[Len(Runs(question))]
           ELSE phrase = question
        /\ \A n \in 1..Len(queries) : Len(queries[n].where) <= 1

\* C28: for every question query_and_introduce ends without raising; it
\* returns (None, None, None) when no table matched and else a triple of the
\* response, the combined records and the introduction, and only then has the
\* summarizer been invoked.
C28_NeverRaises ==
    /\ answer.status # "raised"
    /\ answer.status = "nothing" =>
          /\ LastReturned.value = <<>>
          /\ introduction = NoIntroduction
    /\ answer.status = "triple" =>
          /\ LastReturned.value # <<>>
          /\ introduction.status = "ok"
          /\ answer.introduction = introduction
          /\ answer.all_records = combined.records
          /\ answer.tables_to_query = combined.tables

\* C29: a phrase without any term (empty, or whitespace only) finds nothing
\* in any store whose catalog is listed: the predicate of every statement is
\* empty, the sample statement of every table that has string columns faults
\* and the table is skipped (every such table is tried when the budget is at
\* least one), no count statement is sent, and the call returns the empty
\* list, whatever rows the tables hold.
C29_ZeroTermsEmptyResult ==
    Runs(phrase) = <<>> =>
        /\ found_results = <<>>
        /\ \A n \in 1..Len(queries) :
              /\ queries[n].op = "sample"
              /\ queries[n].where = <<>>
              /\ queries[n].raised
        /\ \A n \in 1..Len(returned) : returned[n].value = <<>>
        /\ (pc = "idle" /\ returned # <<>> /\ ~store.listFault) =>
              LastReturned.status = "ok"
        /\ (pc = "idle" /\ returned # <<>> /\ ~store.listFault /\ max_tables >= 1) =>
              /\ errors = NamesOf(SelectSeq(store.tables,
                                            LAMBDA t : \/ t.fault = "columns"
                                                       \/ MarkedColumns(t) # <<>>))
              /\ Len(queries) = Cardinality({i \in 1..Len(store.tables) :
                                               /\ store.tables[i].fault # "columns"
                                               /\ MarkedColumns(store.tables[i]) # <<>>})

\* a phrase of one space has been searched in two tables that hold rows: both
\* sample statements faulted and the empty list was returned
C29_Witness ==
    /\ Finished
    /\ phrase = <<" ">>
    /\ LastReturned.value = <<>>
    /\ Len(queries) = 2
    /\ \A i \in 1..Len(store.tables) :
          /\ Len(store.tables[i].rows) >= 2
          /\ store.tables[i].fault = "none"

\* the SQL Server answered SELECT 1
SqlUp(env) == env.sql = "ok"

\* Ollama answered 200 with a body the model names can be read from
OllamaUp(env) ==
    /\ env.ollama.kind = "reply"
    /\ env.ollama.code = 200
    /\ env.ollama.form \in {"models", "no_models_key"}

\* C30: a request to /health never raises: it runs the SQL Server probe and
\* then the Ollama probe, whatever the first one met, and returns a dict whose
\* status is "ok" exactly when both probes succeeded and "degraded" otherwise.
C30_HealthReportsProbes ==
    /\ hpc \in {"idle", "sql", "ollama", "verdict"}
    /\ hpc = "ollama" => probes = <<"sql_server">>
    /\ hpc = "verdict" => probes = <<"sql_server", "ollama">>
    /\ \A n \in 1..Len(checks) :
          /\ checks[n]["status"] \in {"ok", "degraded"}
          /\ checks[n]["status"] = "ok" <=> (checks[n]["sql_server"] /\ checks[n]["ollama"])
    /\ (hpc = "idle" /\ checks # <<>>) =>
          LET last == checks[Len(checks)] IN
          /\ probes = <<"sql_server", "ollama">>
          /\ last["sql_server"] <=> SqlUp(health_env)
          /\ last["ollama"] <=> OllamaUp(health_env)
          /\ last["status"] = "ok" <=> (SqlUp(health_env) /\ OllamaUp(health_env))
          /\ last["status"] = "degraded" <=> ~(SqlUp(health_env) /\ OllamaUp(health_env))

\* one request has reported ok; the next one met a failing SQL Server, ran the
\* Ollama probe all the same, found it up and reported degraded
C30_Witness ==
    /\ hpc = "idle"
    /\ Len(checks) = 2
    /\ checks[1]["status"] = "ok"
    /\ checks[2]["status"] = "degraded"
    /\ "sql_server_error" \in DOMAIN checks[2]
    /\ checks[2]["ollama"]
    /\ "ollama_models" \in DOMAIN checks[2]
    /\ probes = <<"sql_server", "ollama">>
====
